---------------------------- MODULE Spec2Model ----------------------------
(***************************************************************************)
(* Model of the deck-data pipeline of grafai_tg_bot:                       *)
(*   get_decks.py     _find_decks_in_obj, _normalize_deck, get_top_10_decks*)
(*   grafai_aibot.py  get_decks (the /decks handler), do_get_decks         *)
(*                                                                         *)
(* Python values are tagged records with one fixed shape, so that any two  *)
(* values can be compared:                                                 *)
(*   t      "none" "bool" "int" "float" "str" "list" "dict" "func"         *)
(*   n      the number: an int as itself, a bool as 0/1, a float in        *)
(*          thousandths (54.32 is 54320)                                   *)
(*   s      the characters of a str, one per element                       *)
(*   items  the elements of a list                                         *)
(*   kv     the entries of a dict, <<key, value>> pairs in document order  *)
(***************************************************************************)
EXTENDS Integers, Sequences, FiniteSets, TLC

VARIABLES
    \* ---- get_top_10_decks (one invocation) ----
    page,         \* the primary document, as the content each strategy reads
    pc,           \* position in get_top_10_decks
    decks_found,  \* get_decks.py:186  None or the raw record list (a PyVal)
    meta_set,     \* get_decks.py:188  the set metadata gathered so far
    table_decks,  \* get_decks.py:259  the decks strategy 3 has collected
    rowIdx,       \* index of the table row (strategy 3) / endpoint (strategy 4) in hand
    okLeft,       \* how many more secondary requests may answer 200 in this run
    requests,     \* the requests issued so far, in order
    lastResp,     \* the outcome of the latest request
    lastBody,     \* the content of the latest answer 200, NoBody for a failure
    attempted,    \* the strategies attempted so far, in order
    yieldedBy,    \* the strategy that set decks_found, 0 when none has
    error,        \* "none" or the exception get_top_10_decks raised
    result,       \* the returned value: [has, set, decks]
    primaryResp,  \* the outcome of the primary request, "none" before it
    normalized,   \* get_decks.py:419  the normalized decks
    \* ---- _normalize_deck applied to one raw record ----
    raw,          \* the raw record
    norm,         \* [done, raised, deck]: the outcome of _normalize_deck(raw)
    \* ---- the bot layer: /decks and do_get_decks ----
    bpc,          \* position in get_decks / do_get_decks
    flag,         \* the value bound to do_get_decks's parameter post_to_facebook
    nDecks,       \* len(decks) in do_get_decks
    media,        \* len(media_items)
    sent,         \* what was sent to the Telegram chat, in order
    fbCalls,      \* invocations of facebook_posting.post_to_facebook, with their arguments
    \* ---- successive invocations of get_top_10_decks in one process ----
    run,          \* the number of the invocation in hand
    heard,        \* the requests of this invocation with their answers, in order
    first,        \* the answers and the outcome of the reference invocation
    \* ---- image_creation.py: the reference caches and the threads that use them ----
    _CARD_DB_CACHE,  \* image_creation.py:15  None or the cards dataset
    _SET_DB_CACHE,   \* image_creation.py:17  None or the sets dataset
    thr,          \* per worker thread: its position in the function it runs, its
                  \* arguments, the value returned, and whether it was called
                  \* after the cache had been populated / after a failed attempt
    hist,         \* per cache: downloads begun, successful assignments, the state
                  \* uninitialized / populated / failed, and whether an attempt
                  \* to populate it has failed
    callsLeft,    \* how many more calls the model makes
    \* ---- _find_decks_in_obj applied to one value ----
    findArg,      \* the value searched
    findRet,      \* [done, val]: the value _find_decks_in_obj(findArg) returned
    \* ---- facebook_posting.py: one call of post_to_facebook ----
    fb            \* its position, its arguments (sdk, page_id, access_token as
                  \* present or not, image_bytes_list as a count), media_fbs, the
                  \* Graph API calls made, and the value returned

vars == <<page, pc, decks_found, meta_set, table_decks, rowIdx, okLeft, requests,
          lastResp, lastBody, attempted, yieldedBy, error, result, primaryResp,
          normalized, raw, norm, bpc, flag, nDecks, media, sent, fbCalls, run, heard, first,
          _CARD_DB_CACHE, _SET_DB_CACHE, thr, hist, callsLeft,
          findArg, findRet, fb>>

pipeVars == <<page, pc, decks_found, meta_set, table_decks, rowIdx, okLeft, requests,
              lastResp, lastBody, attempted, yieldedBy, error, result, primaryResp,
              normalized>>
normVars == <<raw, norm>>
botVars == <<bpc, flag, nDecks, media, sent, fbCalls>>
runVars == <<run, heard, first>>
cacheVars == <<_CARD_DB_CACHE, _SET_DB_CACHE, thr, hist, callsLeft>>
\* what get_top_10_decks leaves alone
findVars == <<findArg, findRet>>
fbVars == <<fb>>
outerVars == <<normVars, botVars, runVars, cacheVars, findVars, fbVars>>

-----------------------------------------------------------------------------
(* Bounds of the model *)

\* the largest number of raw records / table rows a page carries (above the cap of 10)
MaxRaw == 11
\* the largest number of API endpoints discovered on a page
MaxEndpoints == 2
\* the largest number of secondary requests that answer 200 in one run
MaxOk == 1
\* the largest number of decks the bot layer receives in the model
MaxBotDecks == 6
\* the number of worker threads that use the reference caches
MaxThreads == 2
\* the number of calls these threads make in all
MaxCalls == 3

\* get_decks.py:420, 464 and 383: the cap on decks
TopN == 10

Min(a, b) == IF a < b THEN a ELSE b

-----------------------------------------------------------------------------
(* Python values *)

V(t, n, s, items, kv) == [t |-> t, n |-> n, s |-> s, items |-> items, kv |-> kv]
PyNone == V("none", 0, <<>>, <<>>, <<>>)
PyBool(b) == V("bool", IF b THEN 1 ELSE 0, <<>>, <<>>, <<>>)
PyInt(i) == V("int", i, <<>>, <<>>, <<>>)
\* a float, given in thousandths
PyFloat(th) == V("float", th, <<>>, <<>>, <<>>)
PyStr(chars) == V("str", 0, chars, <<>>, <<>>)
PyList(items) == V("list", 0, <<>>, items, <<>>)
PyDict(kv) == V("dict", 0, <<>>, <<>>, kv)
\* a callable object (a function)
PyFunc(name) == V("func", 0, name, <<>>, <<>>)

\* bool(v): Python truthiness
Truthy(v) ==
    CASE v.t = "none" -> FALSE
      [] v.t \in {"bool", "int", "float"} -> v.n # 0
      [] v.t = "str" -> v.s # <<>>
      [] v.t = "list" -> v.items # <<>>
      [] v.t = "dict" -> v.kv # <<>>
      [] OTHER -> TRUE

\* a or b
Or(a, b) == IF Truthy(a) THEN a ELSE b

\* k in d, for a dict d
HasKey(d, k) == \E i \in 1..Len(d.kv) : d.kv[i][1] = k

\* d.get(k): the value under k (the last entry wins, as json.loads keeps it), else None
Get(d, k) ==
    IF HasKey(d, k)
    THEN LET I == {i \in 1..Len(d.kv) : d.kv[i][1] = k}
             last == CHOOSE i \in I : \A j \in I : j <= i
         IN d.kv[last][2]
    ELSE PyNone

\* d.get(k, default)
GetOr(d, k, default) == IF HasKey(d, k) THEN Get(d, k) ELSE default

-----------------------------------------------------------------------------
(* Characters and the conversions str -> float, str -> int *)

DigitChars == {"0", "1", "2", "3", "4", "5", "6", "7", "8", "9"}

DigitVal(c) ==
    CASE c = "0" -> 0 [] c = "1" -> 1 [] c = "2" -> 2 [] c = "3" -> 3 [] c = "4" -> 4
      [] c = "5" -> 5 [] c = "6" -> 6 [] c = "7" -> 7 [] c = "8" -> 8 [] c = "9" -> 9

AllDigits(s) == \A i \in 1..Len(s) : s[i] \in DigitChars

RECURSIVE DigitsVal(_)
DigitsVal(s) ==
    IF s = <<>> THEN 0
    ELSE DigitsVal(SubSeq(s, 1, Len(s) - 1)) * 10 + DigitVal(s[Len(s)])

RECURSIVE Pow10(_)
Pow10(k) == IF k <= 0 THEN 1 ELSE 10 * Pow10(k - 1)

\* str.strip(): leading and trailing blanks removed
RECURSIVE LStrip(_)
LStrip(s) == IF s # <<>> /\ s[1] = " " THEN LStrip(Tail(s)) ELSE s
RECURSIVE RStrip(_)
RStrip(s) == IF s # <<>> /\ s[Len(s)] = " " THEN RStrip(SubSeq(s, 1, Len(s) - 1)) ELSE s
Strip(s) == RStrip(LStrip(s))

\* str.rstrip("%"): every trailing % removed
RECURSIVE RStripPct(_)
RStripPct(s) ==
    IF s # <<>> /\ s[Len(s)] = "%" THEN RStripPct(SubSeq(s, 1, Len(s) - 1)) ELSE s

\* the sign and the unsigned rest of a numeric literal
SignOf(s) == IF s # <<>> /\ s[1] = "-" THEN -1 ELSE 1
Unsigned(s) == IF s # <<>> /\ s[1] \in {"-", "+"} THEN Tail(s) ELSE s

\* float(s) for a str s: [ok, n], n in thousandths; ok = FALSE is ValueError.
\* Literals of the model carry at most three decimals and no exponent.
StrToFloat(s) ==
    LET b == Unsigned(Strip(s))
        sg == SignOf(Strip(s))
        dots == {i \in 1..Len(b) : b[i] = "."}
    IN IF dots = {}
       THEN IF b # <<>> /\ AllDigits(b)
            THEN [ok |-> TRUE, n |-> sg * DigitsVal(b) * 1000]
            ELSE [ok |-> FALSE, n |-> 0]
       ELSE IF Cardinality(dots) = 1
            THEN LET i == CHOOSE j \in dots : TRUE
                     ip == SubSeq(b, 1, i - 1)
                     fp == SubSeq(b, i + 1, Len(b))
                 IN IF AllDigits(ip) /\ AllDigits(fp) /\ Len(ip) + Len(fp) > 0
                    THEN [ok |-> TRUE,
                          n |-> sg * (DigitsVal(ip) * 1000
                                      + (DigitsVal(fp) * Pow10(3 - Len(fp)))
                                         \div Pow10(Len(fp) - 3))]
                    ELSE [ok |-> FALSE, n |-> 0]
            ELSE [ok |-> FALSE, n |-> 0]

\* float(x): [ok, n]; ok = FALSE is ValueError or TypeError
ToFloat(x) ==
    CASE x.t \in {"bool", "int"} -> [ok |-> TRUE, n |-> x.n * 1000]
      [] x.t = "float" -> [ok |-> TRUE, n |-> x.n]
      [] x.t = "str" -> StrToFloat(x.s)
      [] OTHER -> [ok |-> FALSE, n |-> 0]

\* int(s) for a str s: blanks stripped, an optional sign, digits only
StrToInt(s) ==
    LET b == Unsigned(Strip(s))
    IN IF b # <<>> /\ AllDigits(b)
       THEN [ok |-> TRUE, n |-> SignOf(Strip(s)) * DigitsVal(b)]
       ELSE [ok |-> FALSE, n |-> 0]

\* int(x): [ok, n]; a float is truncated toward zero; ok = FALSE is ValueError or TypeError
ToInt(x) ==
    CASE x.t \in {"bool", "int"} -> [ok |-> TRUE, n |-> x.n]
      [] x.t = "float" ->
           [ok |-> TRUE, n |-> IF x.n >= 0 THEN x.n \div 1000 ELSE -((-x.n) \div 1000)]
      [] x.t = "str" -> StrToInt(x.s)
      [] OTHER -> [ok |-> FALSE, n |-> 0]

\* round(x, 2) on thousandths: to the nearest hundredth, a tie to the even hundredth
\* (the model's floats ending in 5 thousandths are multiples of 0.125, exact in binary)
Round2(th) ==
    LET a == IF th >= 0 THEN th ELSE -th
        q == a \div 10
        r == a % 10
        up == r > 5 \/ (r = 5 /\ q % 2 = 1)
        m == (IF up THEN q + 1 ELSE q) * 10
    IN IF th >= 0 THEN m ELSE -m

\* the decimal digits of a natural number
RECURSIVE NatToChars(_)
NatToChars(k) ==
    LET d == <<"0", "1", "2", "3", "4", "5", "6", "7", "8", "9">>[(k % 10) + 1]
    IN IF k < 10 THEN <<d>> ELSE Append(NatToChars(k \div 10), d)

\* str(x), for the values the model passes to it
ToStr(x) ==
    CASE x.t = "str" -> x.s
      [] x.t = "none" -> <<"N", "o", "n", "e">>
      [] x.t = "int" -> IF x.n >= 0 THEN NatToChars(x.n) ELSE <<"-">> \o NatToChars(-x.n)
      [] x.t = "bool" -> IF x.n = 1 THEN <<"T", "r", "u", "e">> ELSE <<"F", "a", "l", "s", "e">>
      [] OTHER -> <<"<", x.t, ">">>

-----------------------------------------------------------------------------
(* get_decks.py: _normalize_deck *)

\* the value read as a fraction and turned into a percentage
parse_pctMut(x) ==
    IF x.t = "none" THEN 0
    ELSE IF x.t = "str"
         THEN LET r == StrToFloat(RStripPct(Strip(x.s)))
              IN IF r.ok THEN Round2(r.n * 100) ELSE 0
         ELSE LET r == ToFloat(x)
              IN IF r.ok THEN Round2(r.n * 100) ELSE 0
\* parse_pct(x): a float in thousandths; every failure is absorbed as 0.0
parse_pct(x) ==
    IF x.t = "none" THEN 0
    ELSE IF x.t = "str"
         THEN LET r == StrToFloat(RStripPct(Strip(x.s)))
              IN IF r.ok THEN Round2(r.n) ELSE 0
         ELSE LET r == ToFloat(x)
              IN IF r.ok THEN Round2(r.n) ELSE 0

\* the qty of a card: int(...) with every failure absorbed as 0
IntOrZero(x) == IF ToInt(x).ok THEN ToInt(x).n ELSE 0

\* iter(x), as the for loop over cards_raw takes it: [ok, items]; ok = FALSE is
\* TypeError (a number or a bool is not iterable). A str yields its characters,
\* a dict its keys.
Iterate(x) ==
    CASE x.t = "list" -> [ok |-> TRUE, items |-> x.items]
      [] x.t = "str" -> [ok |-> TRUE, items |-> [i \in 1..Len(x.s) |-> PyStr(<<x.s[i]>>)]]
      [] x.t = "dict" -> [ok |-> TRUE, items |-> [i \in 1..Len(x.kv) |-> PyStr(<<x.kv[i][1]>>)]]
      [] OTHER -> [ok |-> FALSE, items |-> <<>>]

\* the output card of one dict-shaped raw card
CardOfDict(c) ==
    [name |-> Or(Or(Get(c, "name"), Get(c, "cardName")), PyStr(<<>>)),
     code |-> Or(Or(Or(Get(c, "code"), Get(c, "id")), Get(c, "cardId")), PyStr(<<>>)),
     qty |-> IntOrZero(Or(Or(Or(Get(c, "qty"), Get(c, "quantity")), Get(c, "count")),
                          PyInt(0)))]

\* the output card of one [qty, "name (code)"] pair
CardOfPair(c) ==
    [name |-> PyStr(ToStr(c.items[2])), code |-> PyStr(<<>>), qty |-> IntOrZero(c.items[1])]

\* the loop over cards_raw: dicts and pairs become cards, anything else is skipped
RECURSIVE CardsOut(_)
CardsOut(items) ==
    IF items = <<>> THEN <<>>
    ELSE LET c == items[1]
             rest == CardsOut(Tail(items))
         IN IF c.t = "dict" THEN <<CardOfDict(c)>> \o rest
            ELSE IF c.t = "list" /\ Len(c.items) >= 2 THEN <<CardOfPair(c)>> \o rest
            ELSE rest

\* the win_pct and share fields as the alias chains select them
WinField(d) ==
    Or(Or(Or(Get(d, "win_pct"), Get(d, "winPercent")), Get(d, "win")), Get(d, "winrate"))
ShareField(d) ==
    Or(Or(Or(Get(d, "share"), Get(d, "metaShare")), Get(d, "percentage")), Get(d, "usage"))
CardsField(d) ==
    Or(Or(Or(Get(d, "cards"), Get(d, "list")), Get(d, "cardsList")), PyList(<<>>))

NoDeck == [name |-> PyNone, win_pct |-> 0, share |-> 0, cards |-> <<>>]

\* _normalize_deck(d): [raised, deck]; raised = TRUE is the TypeError of the for
\* loop over a cards value that is not iterable
_normalize_deck(d) ==
    LET cards_raw == CardsField(d)
        it == Iterate(cards_raw)
    IN IF ~it.ok THEN [raised |-> TRUE, deck |-> NoDeck]
       ELSE [raised |-> FALSE,
             deck |-> [name |-> Or(Or(Or(Get(d, "name"), Get(d, "title")), Get(d, "deckName")),
                                   PyStr(<<>>)),
                       win_pct |-> Round2(parse_pct(WinField(d))),
                       share |-> Round2(parse_pct(ShareField(d))),
                       cards |-> CardsOut(it.items)]]

-----------------------------------------------------------------------------
(* Inputs: the raw values the model feeds to the normalizer *)

\* marks a key that the generated dict does not carry
Absent == V("absent", 0, <<>>, <<>>, <<>>)

\* the dict with the given entries, those marked Absent left out
MkDict(pairs) == PyDict(SelectSeq(pairs, LAMBDA p : p[2].t # "absent"))

sMew == <<"M", "e", "w">>
sCode == <<"A", "1", "-", "0", "5", "2">>
sPocket == <<"p", "o", "c", "k", "e", "t">>

\* values met under a percentage key: numbers, numeric strings, others
PctInputs ==
    {Absent, PyNone, PyInt(0), PyFloat(0), PyInt(52), PyFloat(54321), PyFloat(8125),
     PyFloat(-2500), PyBool(TRUE),
     PyStr(<<"5", "4", ".", "3", "2", "%">>), PyStr(<<"8", ".", "1", "0", "%">>),
     PyStr(<<" ", "4", "5", " ">>), PyStr(<<"0">>), PyStr(<<"0", ".", "0", "%">>),
     PyStr(<<"5", "4", ".", "3", "2", "6">>), PyStr(<<"a", "b", "c">>), PyStr(<<>>),
     PyStr(<<"1", ".", "2", ".", "3">>), PyStr(<<"%">>),
     PyList(<<>>), PyList(<<PyInt(1)>>), PyDict(<<>>)}

\* values met under a card's name / code key
CardNameInputs == {Absent, PyNone, PyStr(sMew), PyStr(<<>>), PyInt(7), PyList(<<PyStr(sMew)>>)}
CardCodeInputs == {Absent, PyStr(sCode), PyInt(52)}
\* values met under a card's qty key
QtyInputs ==
    {Absent, PyNone, PyInt(2), PyInt(0), PyInt(-1), PyFloat(2700), PyBool(TRUE),
     PyStr(<<"2">>), PyStr(<<"-", "3">>), PyStr(<<"2", ".", "5">>), PyStr(<<"x">>),
     PyList(<<PyInt(1)>>)}

GoodCard == MkDict(<< <<"name", PyStr(sMew)>>, <<"code", PyStr(sCode)>>, <<"qty", PyInt(2)>> >>)

\* raw cards: dicts over the alias keys, pairs, and shapes that are skipped
CardInputs ==
    {MkDict(<< <<"name", nm>>, <<"code", cd>>, <<"qty", q>> >>) :
        nm \in CardNameInputs, cd \in CardCodeInputs, q \in {PyInt(2), PyInt(-1)}}
    \cup {MkDict(<< <<"name", PyStr(sMew)>>, <<"code", PyStr(sCode)>>, <<"qty", q>>,
                    <<"count", c>> >>) : q \in QtyInputs, c \in {Absent, PyInt(3)}}
    \cup {MkDict(<< <<"cardName", PyStr(sMew)>>, <<"id", PyStr(sCode)>>,
                    <<"quantity", PyInt(1)>> >>)}
    \cup {PyList(<<q, nm>>) : q \in {PyInt(2), PyInt(-1), PyStr(<<"x">>)},
                               nm \in {PyStr(sMew), PyInt(7), PyNone}}
    \cup {PyList(<<PyInt(2)>>), PyStr(sMew), PyInt(3), PyNone}

\* values met under a record's cards key
CardsInputs ==
    {PyList(<<c>>) : c \in CardInputs}
    \cup {PyList(<<GoodCard, PyInt(3), GoodCard>>), PyList(<<>>), PyInt(5), PyFloat(1500),
          PyBool(TRUE), PyInt(0), PyStr(sMew), PyNone, MkDict(<< <<"a", GoodCard>> >>)}

\* raw records: one family varies the percentage fields, one the cards
NormInputs ==
    {MkDict(<< <<"name", PyStr(sMew)>>, <<"win_pct", w>>, <<"winPercent", a>>,
               <<"share", sh>>, <<"usage", a>>, <<"cards", PyList(<<GoodCard>>)>> >>) :
        w \in PctInputs, a \in {Absent, PyFloat(55000)},
        sh \in {Absent, PyInt(0), PyStr(<<"8", ".", "1", "0", "%">>)}}
    \cup {MkDict(<< <<"name", PyStr(sMew)>>, <<"win_pct", PyFloat(54321)>>,
                    <<"cards", cs>> >>) : cs \in CardsInputs}

-----------------------------------------------------------------------------
(* The normalizer applied to one raw record *)

\* no content: the request failed, or none was made yet
NoBody == [none |-> TRUE]

PipeIdle ==
    /\ page = [kind |-> "none"]
    /\ pc = "idle"
    /\ decks_found = PyNone
    /\ meta_set = PyStr(<<>>)
    /\ table_decks = <<>>
    /\ rowIdx = 0
    /\ okLeft = 0
    /\ requests = <<>>
    /\ lastResp = "none"
    /\ lastBody = NoBody
    /\ attempted = <<>>
    /\ yieldedBy = 0
    /\ error = "none"
    /\ result = [has |-> FALSE, set |-> PyNone, decks |-> <<>>]
    /\ primaryResp = "none"
    /\ normalized = <<>>

NormIdle ==
    /\ raw = PyNone
    /\ norm = [done |-> FALSE, raised |-> FALSE, deck |-> NoDeck]

BotIdle ==
    /\ bpc = "idle"
    /\ flag = PyNone
    /\ nDecks = 0
    /\ media = 0
    /\ sent = <<>>
    /\ fbCalls = <<>>

RunIdle ==
    /\ run = 0
    /\ heard = <<>>
    /\ first = NoBody

FindIdle ==
    /\ findArg = PyNone
    /\ findRet = [done |-> FALSE, val |-> PyNone]

FbIdle == fb = [pc |-> "idle"]

\* image_creation.py:15, 17: both caches start as None; no thread is running
CacheIdle ==
    /\ _CARD_DB_CACHE = PyNone
    /\ _SET_DB_CACHE = PyNone
    /\ thr = <<>>
    /\ hist = <<>>
    /\ callsLeft = 0

-----------------------------------------------------------------------------
(* get_decks.py: _find_decks_in_obj *)

UpperAlpha == <<"A", "B", "C", "D", "E", "F", "G", "H", "I", "J", "K", "L", "M",
                "N", "O", "P", "Q", "R", "S", "T", "U", "V", "W", "X", "Y", "Z">>
LowerAlpha == <<"a", "b", "c", "d", "e", "f", "g", "h", "i", "j", "k", "l", "m",
                "n", "o", "p", "q", "r", "s", "t", "u", "v", "w", "x", "y", "z">>

\* str.lower()
LowerChar(c) ==
    IF \E i \in 1..26 : UpperAlpha[i] = c
    THEN LowerAlpha[CHOOSE i \in 1..26 : UpperAlpha[i] = c]
    ELSE c
Lower(s) == [i \in 1..Len(s) |-> LowerChar(s[i])]

\* isinstance(d, dict) and "name" in d and "cards" in d
DeckLike(d) == d.t = "dict" /\ HasKey(d, "name") /\ HasKey(d, "cards")

\* obj.values()
Values(obj) == [i \in 1..Len(obj.kv) |-> obj.kv[i][2]]

\* _find_decks_in_obj(obj, "pocket"): None, or the list under a "decks" key
RECURSIVE _find_decks_in_obj(_)
RECURSIVE FindFirst(_)
_find_decks_in_obj(obj) ==
    IF obj.t = "dict"
    THEN LET decks == Get(obj, "decks")
             hasDecks == HasKey(obj, "decks") /\ decks.t = "list"
             g == Get(obj, "game")
             tagged == g.t = "str" /\ Lower(g.s) = sPocket
         IN IF hasDecks /\ tagged THEN decks
            ELSE IF hasDecks /\ \A i \in 1..Len(decks.items) : DeckLike(decks.items[i])
                 THEN decks
                 ELSE FindFirst(Values(obj))
    ELSE IF obj.t = "list" THEN FindFirst(obj.items)
    ELSE PyNone
\* the loops "found = _find_decks_in_obj(v); if found: return found"
FindFirst(items) ==
    IF items = <<>> THEN PyNone
    ELSE LET found == _find_decks_in_obj(items[1])
         IN IF Truthy(found) THEN found ELSE FindFirst(Tail(items))

-----------------------------------------------------------------------------
(* get_decks.py: get_top_10_decks, the computation of each strategy *)

\* a deck or card as strategies 2 and 3 build it (a Python dict)
CardVal(name, code, qty) ==
    PyDict(<< <<"name", name>>, <<"code", code>>, <<"qty", PyInt(qty)>> >>)
\* a record without the cards key
DeckValMut(name, win, share, cards) ==
    PyDict(<< <<"name", name>>, <<"win_pct", PyFloat(win)>>, <<"share", PyFloat(share)>> >>)
\* lines 249 and 377-382: a record in the output schema
DeckVal(name, win, share, cards) ==
    PyDict(<< <<"name", name>>, <<"win_pct", PyFloat(win)>>, <<"share", PyFloat(share)>>,
              <<"cards", PyList(cards)>> >>)

\* Strategy 1, lines 189-205: the first candidate that parses and holds decks.
\* A candidate is [ok, val]: whether json.loads succeeded (directly or after the
\* comment-stripping retry) and the parsed value.
RECURSIVE Strategy1(_)
Strategy1(cands) ==
    IF cands = <<>> THEN [found |-> PyNone, meta |-> PyStr(<<>>)]
    ELSE LET c == cands[1]
             decks == IF c.ok THEN _find_decks_in_obj(c.val) ELSE PyNone
         IN IF c.ok /\ c.val.t # "none" /\ Truthy(decks)
            THEN [found |-> decks,
                  meta |-> IF c.val.t = "dict" THEN Get(c.val, "set") ELSE PyNone]
            ELSE Strategy1(Tail(cands))

\* A card row's text, as the regular expressions of lines 234-248 and 287-294 split it:
\*   form "qx": "<qty>x <name> (<code>)" (code may be empty: no parenthesis)
\*   form "nq": "<name> <qty>"
\*   form "other": neither
RowCard(r) == CardVal(PyStr(r.name), PyStr(r.code), DigitsVal(r.qty))

\* find_pct, lines 218-226: the text of the element or None
find_pct(txt) ==
    IF txt.t = "none" THEN PyNone
    ELSE LET r == StrToFloat(RStripPct(Strip(Strip(txt.s))))
         IN IF r.ok THEN PyFloat(r.n) ELSE PyNone

\* round(x or 0.0, 2), lines 249, 379-380
RoundOrZero(x) == Round2(Or(x, PyFloat(0)).n)

\* lines 231-248: the loop over an item's card rows; it assigns cards and the
\* variable name, which is also the deck's name
RECURSIVE ItemRows(_, _, _)
ItemRows(rows, name, cards) ==
    IF rows = <<>> THEN [name |-> name, cards |-> cards]
    ELSE LET r == rows[1]
         IN IF r.form = "qx"
            THEN ItemRows(Tail(rows), PyStr(r.name), Append(cards, RowCard(r)))
            ELSE IF r.form = "nq"
                 THEN ItemRows(Tail(rows), PyStr(r.name),
                               Append(cards, CardVal(PyStr(r.name), PyStr(<<>>),
                                                     DigitsVal(r.qty))))
                 ELSE ItemRows(Tail(rows), name, cards)

\* lines 215-249: the deck record of one matched element
ItemDeck(it) ==
    LET name0 == IF it.nameTag.t # "none" THEN it.nameTag
                 ELSE Or(Or(it.dataName, it.titleAttr), PyStr(<<>>))
        r == ItemRows(it.cardRows, name0, <<>>)
    IN DeckVal(r.name, RoundOrZero(find_pct(it.win)), RoundOrZero(find_pct(it.share)),
               r.cards)

\* Strategy 2, lines 211-252
Strategy2(items) == [i \in 1..Len(items) |-> ItemDeck(items[i])]

\* lines 268-275: float(attr or other or 0.0) * 100.0, None when float raises
RowPct(a, b) ==
    LET r == ToFloat(Or(Or(a, b), PyFloat(0)))
    IN IF r.ok THEN PyFloat(r.n * 100) ELSE PyNone

\* lines 377-382: the deck of a table row with the cards found for it
RowDeck(row, cards) ==
    DeckVal(PyStr(row.name), RoundOrZero(RowPct(row.winrate, row.win)),
            RoundOrZero(RowPct(row.share, row.usage)), cards)

\* lines 284-294 and 296-311: the cards of the card nodes / of the pre lines
RECURSIVE NodeCards(_)
NodeCards(rows) ==
    IF rows = <<>> THEN <<>>
    ELSE IF rows[1].form = "qx" THEN <<RowCard(rows[1])>> \o NodeCards(Tail(rows))
         ELSE NodeCards(Tail(rows))

\* the pre lines read whatever the card nodes gave
DetailCardsMut(dp) == NodeCards(dp.nodes) \o NodeCards(dp.pre)
\* lines 284-311: the cards found on a detail page by (a), then by (b)
DetailCards(dp) ==
    IF NodeCards(dp.nodes) # <<>> THEN NodeCards(dp.nodes) ELSE NodeCards(dp.pre)

\* lines 336-345: one {count, name, set, number} entry of the hidden input
InputCard(itc) ==
    LET set_code == GetOr(itc, "set", PyStr(<<>>))
        number == GetOr(itc, "number", PyStr(<<>>))
    IN PyDict(<< <<"name", GetOr(itc, "name", PyStr(<<>>))>>,
                 <<"code", IF Truthy(set_code) \/ Truthy(number)
                           THEN PyStr(ToStr(set_code) \o <<"-">> \o ToStr(number))
                           ELSE PyStr(<<>>)>>,
                 <<"qty", PyInt(IntOrZero(GetOr(itc, "count", PyInt(0))))>> >>)

\* lines 329-347: the cards of the hidden input; a value that does not parse, is
\* not iterable or holds an entry that is no dict raises, and leaves no card
InputCards(inp) ==
    IF ~inp.has \/ ~inp.ok \/ ~Iterate(inp.val).ok THEN <<>>
    ELSE LET its == Iterate(inp.val).items
         IN IF \A i \in 1..Len(its) : its[i].t = "dict"
            THEN [i \in 1..Len(its) |-> InputCard(its[i])]
            ELSE <<>>

\* lines 349-367: the cards of the backtick block, one line
\* "<qty> <name> <setcode> <number>" each
BlobCards(lines) ==
    [i \in 1..Len(lines) |->
        CardVal(PyStr(lines[i].name), PyStr(lines[i].set \o <<"-">> \o lines[i].number),
                DigitsVal(lines[i].qty))]

\* lines 326-370: the cards found on a decklist page
DecklistCards(dl) ==
    IF InputCards(dl.input) # <<>> THEN InputCards(dl.input) ELSE BlobCards(dl.blob)

\* _find_api_endpoints, lines 109-117: the discovered URLs without repetition,
\* in first-seen order
RECURSIVE Dedupe(_, _)
Dedupe(urls, out) ==
    IF urls = <<>> THEN out
    ELSE IF \E i \in 1..Len(out) : out[i] = urls[1]
         THEN Dedupe(Tail(urls), out)
         ELSE Dedupe(Tail(urls), Append(out, urls[1]))
_find_api_endpoints(html) == Dedupe(html.apiRefs, <<>>)

\* lines 397-410: what one endpoint's body yields; a body is [ok, val] as a candidate
ApiDecks(body) ==
    IF body.ok /\ Truthy(body.val) THEN _find_decks_in_obj(body.val) ELSE PyNone

\* the slice left out
FirstTenMut(seq) == seq
\* the slice [:10] of lines 420 and 464
FirstTen(seq) == SubSeq(seq, 1, Min(Len(seq), TopN))

\* lines 419-426: the normalization loop over decks_found[:10]:
\* [raised, out]; raised = TRUE when _normalize_deck raised
RECURSIVE NormalizeLoop(_)
NormalizeLoop(ds) ==
    IF ds = <<>> THEN [raised |-> FALSE, out |-> <<>>]
    ELSE LET d == ds[1]
         IN IF d.t = "dict" /\ HasKey(d, "cards") /\ HasKey(d, "name")
            THEN IF _normalize_deck(d).raised THEN [raised |-> TRUE, out |-> <<>>]
                 ELSE LET rest == NormalizeLoop(Tail(ds))
                      IN [raised |-> rest.raised,
                          out |-> IF rest.raised THEN <<>>
                                  ELSE <<_normalize_deck(d).deck>> \o rest.out]
            ELSE NormalizeLoop(Tail(ds))
NormalizeStage(found) == NormalizeLoop(FirstTen(found.items))

\* lines 432-446: meta_set after a series body that parsed
SeriesMeta(series, meta) ==
    IF series.t = "dict"
    THEN IF Truthy(Get(series, "lastSet")) THEN Get(series, "lastSet")
         ELSE LET sets == Get(series, "sets")
              IN IF sets.t = "list" /\ Len(sets.items) > 0
                 THEN sets.items[Len(sets.items)]
                 ELSE meta
    ELSE IF series.t = "list" /\ Len(series.items) > 0
         THEN series.items[Len(series.items)]
         ELSE meta

sPng == <<".", "p", "n", "g">>

\* lines 452-462: the set of the result
SetOut(meta) ==
    IF meta.t = "dict"
    THEN [id |-> Or(Or(Or(Get(meta, "id"), Get(meta, "code")), Get(meta, "name")), PyStr(<<>>)),
          name |-> Or(Or(Get(meta, "name"), Get(meta, "id")), PyStr(<<>>)),
          logo |-> Or(Or(Or(PyStr(ToStr(Get(meta, "logo")) \o sPng),
                            PyStr(ToStr(Get(meta, "symbol")) \o sPng)),
                         Get(meta, "image")), PyStr(<<>>))]
    ELSE IF meta.t = "str" /\ Truthy(meta)
         THEN [id |-> meta, name |-> meta, logo |-> PyStr(<<>>)]
         ELSE [id |-> PyStr(<<>>), name |-> PyStr(<<>>), logo |-> PyStr(<<>>)]

-----------------------------------------------------------------------------
(* image_creation.py: _normalize_card_code, the renderer's reading of a code *)

\* code.split("-")
RECURSIVE SplitDash(_, _)
SplitDash(s, cur) ==
    IF s = <<>> THEN <<cur>>
    ELSE IF s[1] = "-" THEN <<cur>> \o SplitDash(Tail(s), <<>>)
         ELSE SplitDash(Tail(s), Append(cur, s[1]))

\* str.zfill(3)
ZFill3(s) ==
    LET pad == [i \in 1..(3 - Len(s)) |-> "0"]
    IN IF s # <<>> /\ s[1] = "-" THEN <<"-">> \o pad \o Tail(s) ELSE pad \o s

\* _normalize_card_code(code) for a str code: None or "<setid>-<3-digit localid>"
_normalize_card_code(code) ==
    LET parts == SplitDash(code, <<>>)
        set_id == IF Len(parts) = 2 THEN parts[1] ELSE parts[1] \o <<"-">> \o parts[2]
        local_id == parts[Len(parts)]
    IN IF code = <<>> \/ Len(parts) < 2 \/ Len(parts) > 3 THEN PyNone
       ELSE IF StrToInt(local_id).ok
            THEN PyStr(set_id \o <<"-">> \o ZFill3(ToStr(PyInt(StrToInt(local_id).n))))
            ELSE PyNone

-----------------------------------------------------------------------------
(* Inputs: the documents and responses of one run of get_top_10_decks *)

sPct5432 == <<"5", "4", ".", "3", "2", "%">>
sSetA4 == <<"A", "4">>

\* the i-th well-formed raw record of a JSON document
RawDeck(i) ==
    PyDict(<< <<"name", PyStr(<<"D">> \o NatToChars(i))>>, <<"win_pct", PyStr(sPct5432)>>,
              <<"share", PyFloat(8100)>>, <<"cards", PyList(<<GoodCard>>)>> >>)

\* ill-formed raw records: no cards key, not a dict, a cards value that is a number
BadKinds == {"noCards", "notDict", "cardsNum"}
BadRecord(kind, i) ==
    CASE kind = "noCards" -> PyDict(<< <<"name", PyStr(<<"X">>)>> >>)
      [] kind = "notDict" -> PyStr(<<"X">>)
      [] OTHER -> PyDict(<< <<"name", PyStr(<<"X">>)>>, <<"cards", PyInt(5)>> >>)

\* a JSON document {"game": "Pocket", "decks": [...], "set": "A4"} of n records,
\* the one at badAt ill-formed; the game tag is left out when tagged is FALSE
JsonDoc(n, badAt, kind, tagged) ==
    MkDict(<< <<"game", IF tagged THEN PyStr(<<"P", "o", "c", "k", "e", "t">>) ELSE Absent>>,
              <<"decks", PyList([i \in 1..n |-> IF i = badAt THEN BadRecord(kind, i)
                                                 ELSE RawDeck(i)])>>,
              <<"set", PyStr(sSetA4)>> >>)

\* a JSON document {"decks": [...], "set": setv} of n well-formed records
JsonDocSet(n, setv) ==
    MkDict(<< <<"decks", PyList([i \in 1..n |-> RawDeck(i)])>>, <<"set", setv>> >>)

Unparseable == [ok |-> FALSE, val |-> PyNone]
Parsed(v) == [ok |-> TRUE, val |-> v]

QxRow(q, name, code) == [form |-> "qx", qty |-> q, name |-> name, code |-> code]
NqRow(name, q) == [form |-> "nq", qty |-> q, name |-> name, code |-> <<>>]
OtherRow == [form |-> "other", qty |-> <<>>, name |-> <<>>, code |-> <<>>]

\* elements matched by ".deck-card, .deck, .deck-item, .deck-row"
Item(nameTag, dataName, win, rows) ==
    [nameTag |-> nameTag, dataName |-> dataName, titleAttr |-> PyNone,
     win |-> win, share |-> PyNone, cardRows |-> rows]
ItemInputs ==
    {Item(PyStr(<<"G", "y", "r">>), PyNone, PyStr(sPct5432), <<>>),
     Item(PyNone, PyStr(<<"Z", "a", "p">>), PyNone, <<OtherRow>>),
     Item(PyStr(<<"G", "y", "r">>), PyNone, PyStr(<<"n", "a">>),
          <<QxRow(<<"2">>, sMew, sCode), NqRow(<<"P", "i", "k">>, <<"1">>)>>),
     Item(PyNone, PyNone, PyNone, <<>>)}
DefaultItem == Item(PyStr(<<"G", "y", "r">>), PyNone, PyStr(sPct5432), <<>>)

\* the i-th row of the deck table; rows matched by tr[data-share], tr[data-winrate]
TableRow(i, link) ==
    [link |-> link, name |-> <<"T">> \o NatToChars(i),
     winrate |-> IF i = 2 THEN PyStr(<<"a", "b", "c">>) ELSE PyStr(<<"0", ".", "4", "5">>),
     win |-> PyNone,
     share |-> IF i = 3 THEN PyNone ELSE PyStr(<<"0", ".", "1", "2">>),
     usage |-> IF i = 3 THEN PyStr(<<"0", ".", "5">>) ELSE PyNone]
TableRows(n, nolinkAt) == [i \in 1..n |-> TableRow(i, i # nolinkAt)]

AllSeqs(S, n) == UNION {[1..k -> S] : k \in 0..n}

NoJson == <<Unparseable, Parsed(PyDict(<< <<"a", PyInt(1)>> >>)), Parsed(PyNone)>>

\* pages whose embedded JSON varies; later strategies would find content too
JsonPages ==
    {[cands |-> <<Unparseable, Parsed(JsonDoc(n, badAt, kind, tagged))>>,
      items |-> <<DefaultItem>>, rows |-> TableRows(2, 0), apiRefs |-> <<1>>] :
        n \in 0..MaxRaw, badAt \in 0..1, kind \in BadKinds, tagged \in BOOLEAN}
    \cup {[cands |-> <<Parsed(JsonDoc(n, n, kind, tagged))>>,
           items |-> <<DefaultItem>>, rows |-> TableRows(2, 0), apiRefs |-> <<1>>] :
        n \in 1..MaxRaw, kind \in BadKinds, tagged \in BOOLEAN}
\* values met under the "set" key of a document, and as the latest set of the series
SetWithLogo ==
    PyDict(<< <<"id", PyStr(sSetA4)>>, <<"name", PyStr(<<"S", "e", "t">>)>>,
              <<"logo", PyStr(<<"h", "/", "l">>)>> >>)
SetNoLogo == PyDict(<< <<"id", PyStr(sSetA4)>>, <<"name", PyStr(<<"S", "e", "t">>)>> >>)
SetSymbolOnly == PyDict(<< <<"id", PyStr(sSetA4)>>, <<"symbol", PyStr(<<"h", "/", "s">>)>> >>)
SetInputs == {Absent, PyNone, PyStr(<<>>), PyInt(5), SetNoLogo, SetWithLogo, SetSymbolOnly}
\* pages whose embedded set metadata varies
SetPages ==
    {[cands |-> <<Parsed(JsonDocSet(2, setv))>>, items |-> <<DefaultItem>>,
      rows |-> TableRows(2, 0), apiRefs |-> <<1>>] : setv \in SetInputs}
\* pages whose matched elements vary
CssPages ==
    {[cands |-> NoJson, items |-> its, rows |-> TableRows(2, 0), apiRefs |-> <<1>>] :
        its \in AllSeqs(ItemInputs, 2) \ {<<>>}}
\* pages whose deck table varies
RowCounts == (0..3) \cup {MaxRaw}
TablePages ==
    {[cands |-> NoJson, items |-> <<>>, rows |-> TableRows(n, nolinkAt), apiRefs |-> <<1>>] :
        n \in RowCounts, nolinkAt \in 0..1}
\* pages whose API references vary
ApiPages ==
    {[cands |-> <<>>, items |-> <<>>, rows |-> TableRows(k, 1), apiRefs |-> refs] :
        k \in 0..1, refs \in AllSeqs(1..MaxEndpoints, MaxEndpoints + 1)}

\* a page whose embedded document names a record by "title" and its cards by
\* "list", and another whose "name" is empty beside a "title"
AliasDeck ==
    PyDict(<< <<"title", PyStr(<<"A", "l", "i">>)>>, <<"list", PyList(<<GoodCard>>)>> >>)
TitledDeck ==
    PyDict(<< <<"name", PyStr(<<>>)>>, <<"title", PyStr(<<"T", "i", "t">>)>>,
              <<"cards", PyList(<<GoodCard>>)>> >>)
AliasPages ==
    {[cands |-> <<Parsed(PyDict(<< <<"game", PyStr(sPocket)>>,
                                   <<"decks", PyList(<<RawDeck(1), AliasDeck, TitledDeck>>)>> >>))>>,
      items |-> <<>>, rows |-> <<>>, apiRefs |-> <<>>]}

Pages == JsonPages \cup SetPages \cup CssPages \cup TablePages \cup ApiPages \cup AliasPages
\* pages that come with a 3xx answer of the primary request
RedirectPages == {p \in SetPages : p.cands = <<Parsed(JsonDocSet(2, SetWithLogo))>>}

\* outcomes of a request that fails: for a request checked with
\* raise_for_status "non200" is a 4xx or 5xx status, for one checked with
\* status_code == 200 any other status
FailResps == {"raise", "timeout", "non200"}
\* lines 181, 396: raise_for_status raises on 4xx and 5xx only; a 3xx answer that
\* is not followed (300, 304, no Location) passes with its body, like a 2xx
PassResps == {"ok", "status3xx"}

\* detail pages: card nodes, pre/code lines, a link to a tournament decklist
\* the code of a card row written "3x Pikachu (SM1 35)", as in the comment of line 233
sSpaced == <<"S", "M", "1", " ", "3", "5">>
DetailPages ==
    {[nodes |-> <<QxRow(<<"2">>, sMew, sCode)>>,
      pre |-> <<QxRow(<<"1">>, <<"P", "i", "k">>, <<>>)>>, link |-> TRUE],
     [nodes |-> <<QxRow(<<"3">>, <<"P", "i", "k">>, sSpaced)>>, pre |-> <<>>, link |-> FALSE],
     [nodes |-> <<OtherRow>>, pre |-> <<QxRow(<<"1">>, <<"P", "i", "k">>, <<>>)>>, link |-> TRUE],
     [nodes |-> <<>>, pre |-> <<>>, link |-> FALSE],
     [nodes |-> <<>>, pre |-> <<>>, link |-> TRUE]}

\* decklist pages: the hidden input [has, ok, val] and the lines of the backtick block
InputEntry ==
    PyDict(<< <<"count", PyStr(<<"2">>)>>, <<"name", PyStr(sMew)>>,
              <<"set", PyStr(<<"A", "1">>)>>, <<"number", PyStr(<<"5", "2">>)>> >>)
\* an entry whose name is null
NullNameEntry ==
    PyDict(<< <<"count", PyInt(1)>>, <<"name", PyNone>>,
              <<"set", PyStr(<<"A", "1">>)>>, <<"number", PyStr(<<"7">>)>> >>)
BlobLine == [qty |-> <<"1">>, name |-> <<"P", "i", "k">>, set |-> <<"A", "1">>, number |-> <<"9">>]
DecklistPages ==
    {[input |-> [has |-> TRUE, ok |-> TRUE, val |-> PyList(<<InputEntry>>)], blob |-> <<BlobLine>>],
     [input |-> [has |-> TRUE, ok |-> FALSE, val |-> PyNone], blob |-> <<BlobLine>>],
     [input |-> [has |-> TRUE, ok |-> TRUE, val |-> PyDict(<< <<"a", PyInt(1)>> >>)],
      blob |-> <<>>],
     [input |-> [has |-> TRUE, ok |-> TRUE, val |-> PyList(<<InputEntry, PyInt(3)>>)],
      blob |-> <<BlobLine>>],
     [input |-> [has |-> TRUE, ok |-> TRUE, val |-> PyList(<<InputEntry, NullNameEntry>>)],
      blob |-> <<>>],
     [input |-> [has |-> FALSE, ok |-> FALSE, val |-> PyNone], blob |-> <<BlobLine>>],
     [input |-> [has |-> FALSE, ok |-> FALSE, val |-> PyNone], blob |-> <<>>]}

\* bodies of an API endpoint
ApiBodies ==
    {Unparseable, Parsed(JsonDoc(2, 0, "noCards", FALSE)),
     Parsed(JsonDoc(MaxRaw, 1, "noCards", TRUE)),
     Parsed(PyDict(<< <<"a", PyInt(1)>> >>)), Parsed(PyList(<<>>))}

\* bodies that come with a 3xx answer of an API endpoint
RedirectBodies == {Parsed(JsonDoc(2, 0, "noCards", FALSE))}

\* bodies of the series endpoint
SeriesBodies ==
    {Unparseable, Parsed(PyDict(<< <<"lastSet", SetWithLogo>> >>)),
     Parsed(PyDict(<< <<"lastSet", SetNoLogo>> >>)),
     Parsed(PyDict(<< <<"lastSet", SetSymbolOnly>> >>)),
     Parsed(PyDict(<< <<"x", PyInt(1)>> >>)),
     Parsed(PyDict(<< <<"sets", PyList(<<SetNoLogo, SetWithLogo>>)>> >>)),
     Parsed(PyList(<<SetNoLogo>>)), Parsed(PyList(<<>>))}

-----------------------------------------------------------------------------
(* get_decks.py: one call of _normalize_deck, on a raw record or on a record *)
(* that strategy 2 or 3 built                                                *)

\* lines 249 and 377-382: the records strategies 2 and 3 build from the model's
\* elements, detail pages and decklist pages
BuiltRecords ==
    {ItemDeck(it) : it \in ItemInputs}
    \cup {RowDeck(TableRow(1, TRUE), DetailCards(dp)) : dp \in DetailPages}
    \cup {RowDeck(TableRow(3, TRUE), DecklistCards(dl)) : dl \in DecklistPages}

InitNorm ==
    /\ raw \in NormInputs \cup BuiltRecords
    /\ norm = [done |-> FALSE, raised |-> FALSE, deck |-> NoDeck]
    /\ PipeIdle
    /\ BotIdle
    /\ RunIdle
    /\ FindIdle
    /\ FbIdle
    /\ CacheIdle

\* one call _normalize_deck(raw)
Normalize ==
    /\ ~norm.done
    /\ norm' = [done |-> TRUE, raised |-> _normalize_deck(raw).raised,
                deck |-> _normalize_deck(raw).deck]
    /\ UNCHANGED <<raw, pipeVars, botVars, runVars, cacheVars, findVars, fbVars>>

NextNorm == Normalize

SpecNorm == InitNorm /\ [][NextNorm]_vars

-----------------------------------------------------------------------------
(* get_decks.py: get_top_10_decks as a state machine, one action per request *)
(* or per strategy                                                          *)

NoResult == [has |-> FALSE, set |-> PyNone, decks |-> <<>>]

InitPipe ==
    /\ page \in Pages
    /\ pc = "start"
    /\ decks_found = PyNone
    /\ meta_set = PyStr(<<>>)
    /\ table_decks = <<>>
    /\ rowIdx = 0
    /\ okLeft = MaxOk
    /\ requests = <<>>
    /\ lastResp = "none"
    /\ lastBody = NoBody
    /\ attempted = <<>>
    /\ yieldedBy = 0
    /\ error = "none"
    /\ result = NoResult
    /\ primaryResp = "none"
    /\ normalized = <<>>
    /\ NormIdle
    /\ BotIdle
    /\ RunIdle
    /\ FindIdle
    /\ FbIdle
    /\ CacheIdle

\* lines 180-181: what a failed primary request does (raise_for_status, no try)
OnPrimaryFailure == "propagate"

\* a detail failure that is not caught
OnDetailFailureMut == "propagate"
\* lines 373-375: what a failed detail request does (except Exception: pass)
OnDetailFailure == "absorb"

\* the conditions "if decks_found is None" of lines 208, 256, 391 and 415
\* strategy 3 run unconditionally; the final test never taken
Guard3Mut == TRUE
GuardExhaustedMut == FALSE
Guard2 == decks_found.t = "none"
Guard3 == decks_found.t = "none"
Guard4 == decks_found.t = "none"
GuardExhausted == decks_found.t = "none"

\* lines 176-182: the primary request
FetchPrimary ==
    /\ pc = "start"
    /\ requests' = Append(requests, "primary")
    /\ \E r \in PassResps \cup FailResps :
        /\ r = "status3xx" => page \in RedirectPages
        /\ lastResp' = r
        /\ lastBody' = IF r \in PassResps THEN page ELSE NoBody
        /\ primaryResp' = r
        /\ IF r \in PassResps \/ OnPrimaryFailure # "propagate"
           THEN pc' = "s1" /\ error' = error
           ELSE pc' = "raised" /\ error' = "FetchError"
    /\ UNCHANGED <<page, decks_found, meta_set, table_decks, rowIdx, okLeft, attempted,
                   yieldedBy, result, normalized, outerVars>>

\* lines 184-205: strategy 1, embedded JSON
RunStrategy1 ==
    /\ pc = "s1"
    /\ attempted' = Append(attempted, 1)
    /\ LET r == Strategy1(page.cands)
       IN /\ decks_found' = r.found
          /\ meta_set' = r.meta
          /\ yieldedBy' = IF r.found.t # "none" THEN 1 ELSE yieldedBy
    /\ pc' = "s2"
    /\ UNCHANGED <<page, table_decks, rowIdx, okLeft, requests, lastResp, lastBody, error, result,
                   primaryResp, normalized, outerVars>>

\* lines 207-252: strategy 2, elements selected by class
RunStrategy2 ==
    /\ pc = "s2"
    /\ Guard2
    /\ attempted' = Append(attempted, 2)
    /\ LET parsed_decks == Strategy2(page.items)
       IN IF parsed_decks # <<>>
          THEN /\ decks_found' = PyList(parsed_decks)
               /\ meta_set' = PyNone
               /\ yieldedBy' = 2
          ELSE UNCHANGED <<decks_found, meta_set, yieldedBy>>
    /\ pc' = "s3"
    /\ UNCHANGED <<page, table_decks, rowIdx, okLeft, requests, lastResp, lastBody, error, result,
                   primaryResp, normalized, outerVars>>

SkipStrategy2 ==
    /\ pc = "s2"
    /\ ~Guard2
    /\ pc' = "s3"
    /\ UNCHANGED <<page, decks_found, meta_set, table_decks, rowIdx, okLeft, requests,
                   lastResp, lastBody, attempted, yieldedBy, error, result, primaryResp, normalized,
                   outerVars>>

\* a list that outlives the invocation (kept at module level)
NewTableDecksMut(old) == old
\* line 259: table_decks = [], a new list in each invocation
NewTableDecks(old) == <<>>

\* lines 256-260: strategy 3 begins, the rows are selected
BeginStrategy3 ==
    /\ pc = "s3"
    /\ Guard3
    /\ attempted' = Append(attempted, 3)
    /\ table_decks' = NewTableDecks(table_decks)
    /\ rowIdx' = 1
    /\ pc' = "s3_row"
    /\ UNCHANGED <<page, decks_found, meta_set, okLeft, requests, lastResp, lastBody, yieldedBy,
                   error, result, primaryResp, normalized, outerVars>>

SkipStrategy3 ==
    /\ pc = "s3"
    /\ ~Guard3
    /\ pc' = "s4"
    /\ UNCHANGED <<page, decks_found, meta_set, table_decks, rowIdx, okLeft, requests,
                   lastResp, lastBody, attempted, yieldedBy, error, result, primaryResp, normalized,
                   outerVars>>

\* a loop that never breaks
CapReachedMut(n) == FALSE
\* line 383: len(table_decks) >= 10
CapReached(n) == n >= TopN

\* lines 377-384: the deck of the row in hand is collected; the loop ends at 10
Collect(cards) ==
    /\ table_decks' = Append(table_decks, RowDeck(page.rows[rowIdx], cards))
    /\ rowIdx' = rowIdx + 1
    /\ pc' = IF CapReached(Len(table_decks) + 1) THEN "s3_end" ELSE "s3_row"

\* lines 262-264: a row without a deck link is passed over
S3SkipRow ==
    /\ pc = "s3_row"
    /\ rowIdx <= Len(page.rows)
    /\ ~page.rows[rowIdx].link
    /\ rowIdx' = rowIdx + 1
    /\ UNCHANGED <<page, pc, decks_found, meta_set, table_decks, okLeft, requests,
                   lastResp, lastBody, attempted, yieldedBy, error, result, primaryResp, normalized,
                   outerVars>>

\* lines 279-281, 373-375: the detail request raises, times out or answers non-200
S3DetailFail ==
    /\ pc = "s3_row"
    /\ rowIdx <= Len(page.rows)
    /\ page.rows[rowIdx].link
    /\ requests' = Append(requests, "detail")
    /\ \E r \in FailResps : lastResp' = r
    /\ lastBody' = NoBody
    /\ IF OnDetailFailure = "absorb"
       THEN Collect(<<>>) /\ error' = error
       ELSE pc' = "raised" /\ error' = "RequestError"
            /\ UNCHANGED <<table_decks, rowIdx>>
    /\ UNCHANGED <<page, decks_found, meta_set, okLeft, attempted, yieldedBy, result,
                   primaryResp, normalized, outerVars>>

\* lines 279-322: the detail request answers 200; sources (a) and (b) are tried and
\* the decklist link, if needed, is taken up
S3DetailOk ==
    /\ pc = "s3_row"
    /\ rowIdx <= Len(page.rows)
    /\ page.rows[rowIdx].link
    /\ okLeft > 0
    /\ okLeft' = okLeft - 1
    /\ requests' = Append(requests, "detail")
    /\ lastResp' = "ok"
    /\ \E dp \in DetailPages :
        /\ lastBody' = dp
        /\ IF DetailCards(dp) = <<>> /\ dp.link
           THEN pc' = "s3_decklist" /\ UNCHANGED <<table_decks, rowIdx>>
           ELSE Collect(DetailCards(dp))
    /\ UNCHANGED <<page, decks_found, meta_set, attempted, yieldedBy, error, result,
                   primaryResp, normalized, outerVars>>

\* lines 323-325, 371-372: the decklist request fails
S3DecklistFail ==
    /\ pc = "s3_decklist"
    /\ requests' = Append(requests, "decklist")
    /\ \E r \in FailResps : lastResp' = r
    /\ lastBody' = NoBody
    /\ Collect(<<>>)
    /\ UNCHANGED <<page, decks_found, meta_set, okLeft, attempted, yieldedBy, error,
                   result, primaryResp, normalized, outerVars>>

\* lines 323-370: the decklist request answers 200
S3DecklistOk ==
    /\ pc = "s3_decklist"
    /\ requests' = Append(requests, "decklist")
    /\ lastResp' = "ok"
    /\ \E dl \in DecklistPages : lastBody' = dl /\ Collect(DecklistCards(dl))
    /\ UNCHANGED <<page, decks_found, meta_set, okLeft, attempted, yieldedBy, error,
                   result, primaryResp, normalized, outerVars>>

\* lines 386-388: the loop over the rows is over
S3End ==
    /\ \/ pc = "s3_end"
       \/ pc = "s3_row" /\ rowIdx > Len(page.rows)
    /\ IF table_decks # <<>>
       THEN /\ decks_found' = PyList(table_decks)
            /\ meta_set' = PyNone
            /\ yieldedBy' = 3
       ELSE UNCHANGED <<decks_found, meta_set, yieldedBy>>
    /\ pc' = "s4"
    /\ UNCHANGED <<page, table_decks, rowIdx, okLeft, requests, lastResp, lastBody, attempted, error,
                   result, primaryResp, normalized, outerVars>>

\* lines 391-392: strategy 4 begins, the endpoints are discovered
BeginStrategy4 ==
    /\ pc = "s4"
    /\ Guard4
    /\ attempted' = Append(attempted, 4)
    /\ rowIdx' = 1
    /\ pc' = "s4_ep"
    /\ UNCHANGED <<page, decks_found, meta_set, table_decks, okLeft, requests, lastResp, lastBody,
                   yieldedBy, error, result, primaryResp, normalized, outerVars>>

SkipStrategy4 ==
    /\ pc = "s4"
    /\ ~Guard4
    /\ pc' = "check"
    /\ UNCHANGED <<page, decks_found, meta_set, table_decks, rowIdx, okLeft, requests,
                   lastResp, lastBody, attempted, yieldedBy, error, result, primaryResp, normalized,
                   outerVars>>

\* lines 393-413: one endpoint is requested; a failure or a body without decks
\* leads to the next endpoint
S4Request ==
    /\ pc = "s4_ep"
    /\ rowIdx <= Len(_find_api_endpoints(page))
    /\ requests' = Append(requests, "api")
    /\ \/ /\ \E r \in FailResps : lastResp' = r
          /\ lastBody' = NoBody
          /\ rowIdx' = rowIdx + 1
          /\ UNCHANGED <<pc, decks_found, meta_set, yieldedBy>>
       \/ \E r \in PassResps : \E body \in IF r = "ok" THEN ApiBodies ELSE RedirectBodies :
                /\ lastResp' = r
                /\ lastBody' = body
                /\ IF Truthy(ApiDecks(body))
                   THEN /\ decks_found' = ApiDecks(body)
                        /\ meta_set' = IF body.val.t = "dict" THEN Get(body.val, "set")
                                       ELSE PyNone
                        /\ yieldedBy' = 4
                        /\ pc' = "check"
                        /\ rowIdx' = rowIdx
                   ELSE /\ rowIdx' = rowIdx + 1
                        /\ UNCHANGED <<pc, decks_found, meta_set, yieldedBy>>
    /\ UNCHANGED <<page, table_decks, okLeft, attempted, error, result, primaryResp,
                   normalized, outerVars>>

S4End ==
    /\ pc = "s4_ep"
    /\ rowIdx > Len(_find_api_endpoints(page))
    /\ pc' = "check"
    /\ UNCHANGED <<page, decks_found, meta_set, table_decks, rowIdx, okLeft, requests,
                   lastResp, lastBody, attempted, yieldedBy, error, result, primaryResp, normalized,
                   outerVars>>

\* lines 415-416: no strategy found decks
Exhausted ==
    /\ pc = "check"
    /\ GuardExhausted
    /\ error' = "RuntimeError"
    /\ pc' = "raised"
    /\ UNCHANGED <<page, decks_found, meta_set, table_decks, rowIdx, okLeft, requests,
                   lastResp, lastBody, attempted, yieldedBy, result, primaryResp, normalized,
                   outerVars>>

\* lines 418-426: the normalization loop; normalized keeps its outcome for Enrich.
\* decks_found[:10] of None raises TypeError, as does a cards value not iterable.
Normalization ==
    /\ pc = "check"
    /\ ~GuardExhausted
    /\ IF decks_found.t # "list" \/ NormalizeStage(decks_found).raised
       THEN /\ error' = "TypeError"
            /\ pc' = "raised"
            /\ UNCHANGED normalized
       ELSE /\ normalized' = NormalizeStage(decks_found).out
            /\ pc' = "enrich"
            /\ error' = error
    /\ UNCHANGED <<page, decks_found, meta_set, table_decks, rowIdx, okLeft, requests,
                   lastResp, lastBody, attempted, yieldedBy, result, primaryResp, outerVars>>

\* lines 433-446: whether a body of the series endpoint assigns meta_set
SeriesUsable(body) ==
    /\ body.ok
    /\ \/ /\ body.val.t = "dict"
          /\ \/ Truthy(Get(body.val, "lastSet"))
             \/ Get(body.val, "sets").t = "list" /\ Len(Get(body.val, "sets").items) > 0
       \/ body.val.t = "list" /\ Len(body.val.items) > 0

\* a failed enrichment that forgets the metadata gathered so far
EnrichFailedMut(meta) == PyStr(<<>>)
\* lines 432, 447-449: meta_set after an enrichment that failed (non-200, an
\* exception, a body that assigns nothing): the existing meta_set is kept
EnrichFailed(meta) == meta

\* lines 428-465: the series request, the set of the result, the return; the
\* outcome "unusable" is an answer 200 whose body assigns nothing
Enrich ==
    /\ pc = "enrich"
    /\ requests' = Append(requests, "series")
    /\ \E r \in FailResps \cup {"ok"} :
        \E body \in IF r = "ok" THEN SeriesBodies ELSE {Unparseable} :
            LET used == r = "ok" /\ SeriesUsable(body)
                meta == IF used THEN SeriesMeta(body.val, meta_set)
                        ELSE EnrichFailed(meta_set)
            IN /\ lastResp' = IF r = "ok" /\ ~used THEN "unusable" ELSE r
               /\ lastBody' = IF r = "ok" THEN body ELSE NoBody
               /\ meta_set' = meta
               /\ result' = [has |-> TRUE, set |-> SetOut(meta), decks |-> FirstTen(normalized)]
    /\ pc' = "done"
    /\ UNCHANGED <<page, decks_found, table_decks, rowIdx, okLeft, attempted, yieldedBy,
                   error, primaryResp, normalized, outerVars>>

Next ==
    \/ FetchPrimary
    \/ RunStrategy1
    \/ RunStrategy2
    \/ SkipStrategy2
    \/ BeginStrategy3
    \/ SkipStrategy3
    \/ S3SkipRow
    \/ S3DetailFail
    \/ S3DetailOk
    \/ S3DecklistFail
    \/ S3DecklistOk
    \/ S3End
    \/ BeginStrategy4
    \/ SkipStrategy4
    \/ S4Request
    \/ S4End
    \/ Exhausted
    \/ Normalization
    \/ Enrich

Spec == InitPipe /\ [][Next]_vars

-----------------------------------------------------------------------------
(* get_decks.py: successive invocations of get_top_10_decks in one process.    *)
(* Invocation 0 is any earlier one, invocation 1 the reference, invocation 2   *)
(* receives the answers of the reference to the same requests.                 *)

Terminated == pc \in {"done", "raised"}

\* the primary documents of the compared invocations
TwicePages ==
    {[cands |-> NoJson, items |-> <<>>, rows |-> TableRows(2, 0), apiRefs |-> <<1>>],
     [cands |-> <<Parsed(JsonDocSet(1, PyStr(sSetA4)))>>, items |-> <<DefaultItem>>,
      rows |-> TableRows(2, 0), apiRefs |-> <<1>>],
     [cands |-> <<>>, items |-> <<>>, rows |-> <<>>, apiRefs |-> <<1>>]}
\* the outcomes of their requests
TwiceResps == {"none", "ok", "timeout", "unusable"}

InitTwice ==
    /\ InitPipe
    /\ page \in TwicePages

\* the answer to the latest request is taken down; invocation 2 goes on only
\* with the answer the reference got at this place
Note ==
    /\ Len(heard) < Len(requests)
    /\ LET h == [kind |-> requests[Len(requests)], resp |-> lastResp, body |-> lastBody]
       IN /\ run = 2 => Len(heard) < Len(first.heard) /\ first.heard[Len(heard) + 1] = h
          /\ heard' = Append(heard, h)
    /\ UNCHANGED <<pipeVars, normVars, botVars, run, first, cacheVars, findVars, fbVars>>

\* line 169: get_top_10_decks is entered again. The function has no global and
\* no default argument; the locals of the new frame hold nothing until the
\* function assigns them, so the model leaves what the last invocation wrote in
\* their place. The environment (the answers still to come) starts anew.
Reinvoke ==
    /\ run < 2
    /\ Terminated
    /\ Len(heard) = Len(requests)
    /\ run' = run + 1
    /\ first' = IF run = 0
                THEN [earlier |-> yieldedBy]
                ELSE [earlier |-> first.earlier, page |-> page, heard |-> heard,
                      result |-> result, error |-> error]
    /\ heard' = <<>>
    /\ page' \in IF run = 0 THEN TwicePages ELSE {page}
    /\ pc' = "start"
    /\ okLeft' = MaxOk
    /\ requests' = <<>>
    /\ lastResp' = "none"
    /\ lastBody' = NoBody
    /\ attempted' = <<>>
    /\ yieldedBy' = 0
    /\ error' = "none"
    /\ result' = NoResult
    /\ primaryResp' = "none"
    /\ UNCHANGED <<decks_found, meta_set, table_decks, rowIdx, normalized, normVars, botVars,
                   cacheVars, findVars, fbVars>>

\* one step of the invocation in hand
Step ==
    /\ Len(heard) = Len(requests)
    /\ Next
    /\ lastResp' \in TwiceResps

NextTwice ==
    \/ Step
    \/ Note
    \/ Reinvoke

SpecTwice == InitTwice /\ [][NextTwice]_vars

-----------------------------------------------------------------------------
(* image_creation.py: the reference caches _CARD_DB_CACHE and _SET_DB_CACHE,   *)
(* filled and read by _get_card_from_pocket_db and _get_latest_set_code, which *)
(* run in worker threads (asyncio.to_thread) and take no lock. A thread can be *)
(* overtaken between its test of the cache, the answer to its request and its *)
(* lookup; each of these is one action.                                        *)

Threads == 1..MaxThreads
Caches == {"card", "set"}

\* str.upper()
UpperChar(c) ==
    IF \E i \in 1..26 : LowerAlpha[i] = c
    THEN UpperAlpha[CHOOSE i \in 1..26 : LowerAlpha[i] = c]
    ELSE c
Upper(s) == [i \in 1..Len(s) |-> UpperChar(s[i])]

\* sub in s
Contains(s, sub) ==
    \E i \in 1..(Len(s) - Len(sub) + 1) : SubSeq(s, i, i + Len(sub) - 1) = sub

sPromo == <<"P", "R", "O", "M", "O">>

\* len(x) is defined
Sized(x) == x.t \in {"str", "list", "dict"}

\* the cache of a function: "card" is _get_card_from_pocket_db, "set" is
\* _get_latest_set_code
CacheOf(c) == IF c = "card" THEN _CARD_DB_CACHE ELSE _SET_DB_CACHE

\* lines 125, 142 (cards) and 62, 81 (sets): the value assigned on a failure
FailedEmpty(c) == IF c = "card" THEN PyDict(<<>>) ELSE PyList(<<>>)

\* an assignment to the global of cache c
Assign(c, v) ==
    IF c = "card"
    THEN _CARD_DB_CACHE' = v /\ UNCHANGED _SET_DB_CACHE
    ELSE _SET_DB_CACHE' = v /\ UNCHANGED _CARD_DB_CACHE

\* lines 134-139: the search loop; [raised, val], raised = TRUE when an element
\* has no get (AttributeError)
RECURSIVE CardSearch(_, _, _)
CardSearch(items, set_code_upper, card_number) ==
    IF items = <<>> THEN [raised |-> FALSE, val |-> PyNone]
    ELSE LET card == items[1]
         IN IF card.t # "dict" THEN [raised |-> TRUE, val |-> PyNone]
            ELSE IF /\ Get(card, "set") = PyStr(set_code_upper)
                    /\ Get(card, "number") = PyInt(card_number)
                 THEN [raised |-> FALSE, val |-> card]
                 ELSE CardSearch(Tail(items), set_code_upper, card_number)

\* lines 130-139: the lookup of _get_card_from_pocket_db in the cache content
CardLookup(content, set_code, card_number) ==
    IF ~Iterate(content).ok THEN [raised |-> TRUE, val |-> PyNone]
    ELSE CardSearch(Iterate(content).items, Upper(set_code), card_number)

\* (x.get('code') or '').strip(): [raised, s]
CodeOf(x) ==
    IF x.t # "dict" THEN [raised |-> TRUE, s |-> <<>>]
    ELSE LET c == Or(Get(x, "code"), PyStr(<<>>))
         IN IF c.t # "str" THEN [raised |-> TRUE, s |-> <<>>]
            ELSE [raised |-> FALSE, s |-> Strip(c.s)]

\* lines 67-78: the lookup of _get_latest_set_code in the cache content (the
\* global is read once)
LatestSetLookup(content) ==
    IF content.t # "list" \/ Len(content.items) = 0 THEN [raised |-> FALSE, val |-> PyNone]
    ELSE LET n == Len(content.items)
             code == CodeOf(content.items[n])
         IN IF code.raised THEN [raised |-> TRUE, val |-> PyNone]
            ELSE IF code.s # <<>> /\ Contains(Upper(code.s), sPromo)
                 THEN IF n >= 2
                      THEN LET prev == CodeOf(content.items[n - 1])
                           IN IF prev.raised THEN [raised |-> TRUE, val |-> PyNone]
                              ELSE [raised |-> FALSE, val |-> PyStr(Upper(prev.s))]
                      ELSE [raised |-> FALSE, val |-> PyNone]
                 ELSE [raised |-> FALSE,
                       val |-> IF code.s # <<>> THEN PyStr(Upper(code.s)) ELSE PyNone]

\* the datasets the download answers with
sA1 == <<"A", "1">>
CardRec(set, number) ==
    PyDict(<< <<"set", PyStr(set)>>, <<"number", PyInt(number)>>,
              <<"imageName", PyStr(<<"i">>)>> >>)
CardBodies ==
    {Unparseable, Parsed(PyNone),
     Parsed(PyList(<<CardRec(sA1, 1)>>)),
     Parsed(PyList(<<CardRec(sA1, 1), PyStr(<<"x">>), CardRec(sA1, 2)>>)),
     Parsed(PyDict(<< <<"cards", PyList(<<CardRec(sA1, 1)>>)>> >>))}
SetRec(code) == PyDict(<< <<"code", code>> >>)
SetBodies ==
    {Unparseable, Parsed(PyList(<<>>)),
     Parsed(PyList(<<SetRec(PyStr(sA1)), SetRec(PyStr(<<"a", "2", " ">>))>>)),
     Parsed(PyList(<<SetRec(PyStr(sA1)), SetRec(PyStr(<<"p", "r", "o", "m", "o", "-", "a">>))>>)),
     Parsed(PyList(<<SetRec(PyStr(sA1)), PyInt(5)>>)),
     Parsed(PyList(<<SetRec(PyInt(7))>>))}
BodiesOf(c) == IF c = "card" THEN CardBodies ELSE SetBodies

\* the calls made: the function and its arguments
CallInputs ==
    {[fn |-> "card", set_code |-> <<"a", "1">>, card_number |-> n] : n \in {1, 2}}
    \cup {[fn |-> "set", set_code |-> <<>>, card_number |-> 0]}

IdleThread ==
    [pc |-> "idle", fn |-> "none", set_code |-> <<>>, card_number |-> 0, ret |-> PyNone,
     late |-> FALSE, afterFail |-> FALSE]

InitCache ==
    /\ _CARD_DB_CACHE = PyNone
    /\ _SET_DB_CACHE = PyNone
    /\ thr = [t \in Threads |-> IdleThread]
    /\ hist = [gets |-> [c \in Caches |-> 0], fills |-> [c \in Caches |-> 0],
               status |-> [c \in Caches |-> "uninitialized"],
               failed |-> [c \in Caches |-> FALSE]]
    /\ callsLeft = MaxCalls
    /\ PipeIdle
    /\ NormIdle
    /\ BotIdle
    /\ RunIdle
    /\ FindIdle
    /\ FbIdle

\* the function returns: the thread is idle again
Return(t, v) == thr' = [thr EXCEPT ![t].pc = "idle", ![t].ret = v]

\* lines 62-63, 81-82, 125-126, 142-143: the cache is assigned its empty value
\* and None is returned
GiveUp(t) ==
    LET c == thr[t].fn
    IN /\ Assign(c, FailedEmpty(c))
       /\ hist' = [hist EXCEPT !.status[c] = "failed", !.failed[c] = TRUE]
       /\ Return(t, PyNone)

\* a worker thread enters _get_card_from_pocket_db or _get_latest_set_code
Call(t) ==
    /\ callsLeft > 0
    /\ thr[t].pc = "idle"
    /\ \E a \in CallInputs :
        thr' = [thr EXCEPT ![t] = [pc |-> "test", fn |-> a.fn, set_code |-> a.set_code,
                                   card_number |-> a.card_number, ret |-> PyNone,
                                   late |-> hist.status[a.fn] = "populated",
                                   afterFail |-> hist.failed[a.fn]]]
    /\ callsLeft' = callsLeft - 1
    /\ UNCHANGED <<_CARD_DB_CACHE, _SET_DB_CACHE, hist, pipeVars, normVars, botVars, runVars, findVars, fbVars>>

\* lines 56-59, 119-122: "if cache is None", and the request is sent
Test(t) ==
    /\ thr[t].pc = "test"
    /\ IF CacheOf(thr[t].fn).t = "none"
       THEN /\ thr' = [thr EXCEPT ![t].pc = "get"]
            /\ hist' = [hist EXCEPT !.gets[thr[t].fn] = @ + 1]
       ELSE /\ thr' = [thr EXCEPT ![t].pc = "lookup"]
            /\ UNCHANGED hist
    /\ UNCHANGED <<_CARD_DB_CACHE, _SET_DB_CACHE, callsLeft, pipeVars, normVars, botVars,
                   runVars, findVars, fbVars>>

\* lines 59-63, 79-82, 122-126, 140-143: the request raises, times out or answers
\* non-200
Fail(t) ==
    /\ thr[t].pc = "get"
    /\ GiveUp(t)
    /\ UNCHANGED <<callsLeft, pipeVars, normVars, botVars, runVars, findVars, fbVars>>

\* lines 64-65, 127-128: the request answers 200; r.json() is assigned and its
\* len logged, either of which may raise
Fill(t) ==
    /\ thr[t].pc = "get"
    /\ LET c == thr[t].fn
       IN \E body \in BodiesOf(c) :
            IF body.ok /\ Sized(body.val)
            THEN /\ Assign(c, body.val)
                 /\ hist' = [hist EXCEPT !.fills[c] = @ + 1, !.status[c] = "populated"]
                 /\ thr' = [thr EXCEPT ![t].pc = "lookup"]
            ELSE GiveUp(t)
    /\ UNCHANGED <<callsLeft, pipeVars, normVars, botVars, runVars, findVars, fbVars>>

\* lines 67-82, 130-143: the lookup in the cache, and the return
Lookup(t) ==
    /\ thr[t].pc = "lookup"
    /\ LET c == thr[t].fn
           r == IF c = "card"
                THEN CardLookup(_CARD_DB_CACHE, thr[t].set_code, thr[t].card_number)
                ELSE LatestSetLookup(_SET_DB_CACHE)
       IN IF r.raised THEN GiveUp(t)
          ELSE Return(t, r.val) /\ UNCHANGED <<_CARD_DB_CACHE, _SET_DB_CACHE, hist>>
    /\ UNCHANGED <<callsLeft, pipeVars, normVars, botVars, runVars, findVars, fbVars>>

NextCache ==
    \E t \in Threads :
        \/ Call(t)
        \/ Test(t)
        \/ Fail(t)
        \/ Fill(t)
        \/ Lookup(t)

SpecCache == InitCache /\ [][NextCache]_vars

-----------------------------------------------------------------------------
(* grafai_aibot.py: the /decks handler, the scheduled job and do_get_decks *)

\* grafai_aibot.py:140: decks = data.get("decks", [])[:5]
BotDecks == 5

\* the arguments of a /decks command
ArgInputs ==
    {<<>>, <<<<"f", "a", "l", "s", "e">>>>, <<<<"F", "a", "l", "s", "e">>>>,
     <<<<"t", "r", "u", "e">>>>, <<<<"n", "o">>, <<"f", "a", "l", "s", "e">>>>}

\* lines 112-115: post_to_fb as the handler derives it from the arguments
PostToFb(args) == ~(args # <<>> /\ Lower(args[1]) = <<"f", "a", "l", "s", "e">>)

\* line 33: the function imported from facebook_posting
FacebookPostingFn == PyFunc(<<"post_to_facebook">>)

\* the object the name post_to_facebook denotes inside do_get_decks (lines 243-245):
\* the parameter of line 124, which hides the function imported at line 33
PostToFacebookName == flag

InitBot ==
    /\ bpc = "cmd"
    /\ flag = PyNone
    /\ nDecks = 0
    /\ media = 0
    /\ sent = <<>>
    /\ fbCalls = <<>>
    /\ PipeIdle
    /\ NormIdle
    /\ RunIdle
    /\ FindIdle
    /\ FbIdle
    /\ CacheIdle

\* lines 106-118: the /decks handler up to its call of do_get_decks
CmdDecks ==
    /\ bpc = "cmd"
    /\ \E args \in ArgInputs : flag' = PyBool(PostToFb(args))
    /\ sent' = Append(sent, "status")
    /\ bpc' = "fetch"
    /\ UNCHANGED <<nDecks, media, fbCalls, pipeVars, normVars, runVars, cacheVars, findVars, fbVars>>

\* lines 252-266: the scheduled job up to its call of do_get_decks; the job data
\* set by /schedule (line 98) carries the chat id only
ScheduledRun ==
    /\ bpc = "cmd"
    /\ flag' = PyBool(TRUE)
    /\ sent' = Append(sent, "scheduled")
    /\ bpc' = "fetch"
    /\ UNCHANGED <<nDecks, media, fbCalls, pipeVars, normVars, runVars, cacheVars, findVars, fbVars>>

\* the exceptions get_top_10_decks raises
RaisedErrors == {"FetchError", "RuntimeError", "TypeError"}

\* the run goes on after the error message
AfterFetchErrorMut == "caption"
\* line 137: return
AfterFetchError == "end"

\* lines 132-137: get_top_10_decks raised; the error text is sent and the run
\* stops. When the send itself raises, the exception leaves do_get_decks: the
\* /decks handler replies with its own text (lines 119-121), the job logs
\* (lines 267-268).
FetchRaised ==
    /\ bpc = "fetch"
    /\ error' \in RaisedErrors
    /\ \E ok \in BOOLEAN, reply \in BOOLEAN :
        sent' = IF ok THEN Append(sent, "error")
                ELSE IF reply /\ sent[1] = "status"
                     THEN sent \o <<"error_failed", "handler_error">>
                     ELSE Append(sent, "error_failed")
    /\ bpc' = AfterFetchError
    /\ UNCHANGED <<page, pc, decks_found, meta_set, table_decks, rowIdx, okLeft, requests,
                   lastResp, lastBody, attempted, yieldedBy, result, primaryResp,
                   normalized>>
    /\ UNCHANGED <<flag, nDecks, media, fbCalls, normVars, runVars, cacheVars, findVars, fbVars>>

\* lines 139-206: get_top_10_decks returned n decks; the listing pages, one grid
\* image per deck and the back cover are generated, each of which may fail
FetchReturned ==
    /\ bpc = "fetch"
    /\ \E n \in 0..MaxBotDecks :
        LET k == Min(n, BotDecks)
        IN /\ nDecks' = k
           /\ IF k = 0
              THEN /\ sent' = Append(sent, "no_decks")
                   /\ media' = 0
                   /\ bpc' = "end"
              ELSE \E lp \in 0..1, grids \in 0..k, back \in 0..1 :
                    /\ media' = lp + grids + back
                    /\ IF lp + grids + back = 0
                       THEN sent' = Append(sent, "no_images") /\ bpc' = "end"
                       ELSE sent' = sent /\ bpc' = "send"
    /\ UNCHANGED <<flag, fbCalls, pipeVars, normVars, runVars, cacheVars, findVars, fbVars>>

\* lines 213-232: the media groups are sent (one batch: at most 7 items); a
\* failure is logged and the run goes on
SendMedia ==
    /\ bpc = "send"
    /\ \E ok \in BOOLEAN : sent' = IF ok THEN Append(sent, "media_group") ELSE sent
    /\ bpc' = "caption"
    /\ UNCHANGED <<flag, nDecks, media, fbCalls, pipeVars, normVars, runVars, cacheVars, findVars, fbVars>>

\* lines 234-249: the caption is generated and sent, then the Facebook post is
\* made: asyncio.to_thread calls the object named post_to_facebook; calling an
\* object that is no function raises TypeError, which line 248 catches
CaptionAndPost ==
    /\ bpc = "caption"
    /\ \E captionOk \in BOOLEAN, sendOk \in BOOLEAN :
        IF captionOk /\ sendOk
        THEN /\ sent' = Append(sent, "caption")
             /\ fbCalls' = IF Truthy(flag) /\ PostToFacebookName.t = "func"
                           THEN Append(fbCalls, [names |-> nDecks, images |-> media])
                           ELSE fbCalls
        ELSE UNCHANGED <<sent, fbCalls>>
    /\ bpc' = "end"
    /\ UNCHANGED <<flag, nDecks, media, pipeVars, normVars, runVars, cacheVars, findVars, fbVars>>

NextBot ==
    \/ CmdDecks
    \/ ScheduledRun
    \/ FetchRaised
    \/ FetchReturned
    \/ SendMedia
    \/ CaptionAndPost

SpecBot == InitBot /\ [][NextBot]_vars

-----------------------------------------------------------------------------
(* get_decks.py: _find_decks_in_obj applied to one nested value *)

\* values met under a "game" key and under a "decks" key
GameTags == {Absent, PyStr(<<"P", "o", "c", "k", "e", "t">>), PyStr(<<"t", "c", "g">>), PyInt(3)}
DecksValues ==
    {PyList(<<>>), PyList(<<RawDeck(1)>>), PyList(<<RawDeck(2), RawDeck(3)>>),
     PyList(<<BadRecord("noCards", 1)>>), PyList(<<RawDeck(4), BadRecord("notDict", 2)>>),
     PyInt(7)}
\* maps {"game": ..., "decks": ...} and scalars
FindLeaves ==
    {MkDict(<< <<"game", g>>, <<"decks", d>> >>) : g \in GameTags, d \in DecksValues}
    \cup {PyNone, PyInt(1), PyStr(<<"x">>)}
\* the values searched: a leaf, two leaves in a sequence or in a map, a leaf
\* beside or under a "decks" key
FindInputs ==
    FindLeaves
    \cup {PyList(<<a, b>>) : a, b \in FindLeaves}
    \cup {PyDict(<< <<"a", a>>, <<"b", PyDict(<< <<"c", b>> >>)>> >>) : a, b \in FindLeaves}
    \cup {PyDict(<< <<"decks", d>>, <<"data", a>> >>) : d \in DecksValues, a \in FindLeaves}
    \cup {PyDict(<< <<"data", a>>, <<"decks", d>> >>) : d \in DecksValues, a \in FindLeaves}
    \cup {PyDict(<< <<"decks", a>> >>) : a \in FindLeaves}

InitFind ==
    /\ findArg \in FindInputs
    /\ findRet = [done |-> FALSE, val |-> PyNone]
    /\ FbIdle
    /\ PipeIdle
    /\ NormIdle
    /\ BotIdle
    /\ RunIdle
    /\ CacheIdle

\* lines 10-35: one call of _find_decks_in_obj
Find ==
    /\ ~findRet.done
    /\ findRet' = [done |-> TRUE, val |-> _find_decks_in_obj(findArg)]
    /\ UNCHANGED <<findArg, pipeVars, normVars, botVars, runVars, cacheVars, fbVars>>

NextFind == Find
SpecFind == InitFind /\ [][NextFind]_vars

-----------------------------------------------------------------------------
(* facebook_posting.py: post_to_facebook *)

\* the most images one call is handed
MaxImages == 3

\* a Graph API call: the operation, the image it carries (0: none), the photo
\* ids it attaches, and how it ended
GraphCall(op, img, attached, res) == [op |-> op, img |-> img, attached |-> attached, res |-> res]

\* how graph.put_photo(..., published=False) ends for one image: a response with
\* an id, a response without one, a response that is no mapping (resp.get
\* raises at line 173), an exception, or the TypeError of line 169 followed by
\* the second call's id or exception
UploadOutcomes == {"id", "noId", "noGet", "raise", "retryId", "retryRaise"}
\* the outcomes that leave the loop through the handler of line 193
UploadRaises == {"noGet", "raise", "retryRaise"}

\* every response counts as an upload
HasPhotoIdMut(out) == out \in {"id", "noId", "retryId"}
\* lines 173-177: the response carries an id or a post_id
HasPhotoId(out) == out \in {"id", "retryId"}

\* lines 168-171: the put_photo calls made for image idx
UploadCalls(idx, out) ==
    CASE out = "retryId" -> <<GraphCall("put_photo", idx, <<>>, "typeError"),
                              GraphCall("put_photo", idx, <<>>, "id")>>
      [] out = "retryRaise" -> <<GraphCall("put_photo", idx, <<>>, "typeError"),
                                 GraphCall("put_photo", idx, <<>>, "raise")>>
      [] OTHER -> <<GraphCall("put_photo", idx, <<>>, out)>>

\* lines 204-206: a fallback that fails is logged, and False is returned
OnFallbackFailure == "False"

InitFb ==
    /\ \E sdk, pid, token \in BOOLEAN : \E n \in 0..MaxImages :
          fb = [pc |-> "start", sdk |-> sdk, page_id |-> pid, access_token |-> token,
                image_bytes_list |-> n, idx |-> 0, media_fbs |-> <<>>, calls |-> <<>>,
                ret |-> "none", combined |-> "none"]
    /\ PipeIdle
    /\ NormIdle
    /\ BotIdle
    /\ RunIdle
    /\ CacheIdle
    /\ findArg = PyNone
    /\ findRet = [done |-> FALSE, val |-> PyNone]

FbReturn(v) == [fb EXCEPT !.pc = "done", !.ret = v]
FbRest == UNCHANGED <<pipeVars, normVars, botVars, runVars, cacheVars, findVars>>

\* lines 120-132: the SDK, the page id and the token are needed
FbEnter ==
    /\ fb.pc = "start"
    /\ fb' = IF ~fb.sdk \/ ~fb.page_id \/ ~fb.access_token
             THEN FbReturn("False")
             ELSE [fb EXCEPT !.pc = "prepare"]
    /\ FbRest

\* lines 134-156, 208-210: the caption (generate_caption may raise), the page
\* token looked up through me/accounts, the GraphAPI object, and the test for
\* images
FbPrepare ==
    /\ fb.pc = "prepare"
    /\ \E captionOk \in BOOLEAN, accounts \in {"ok", "raise"} :
          fb' = IF ~captionOk THEN FbReturn("False")
                ELSE LET c == Append(fb.calls, GraphCall("get_connections", 0, <<>>, accounts))
                     IN IF fb.image_bytes_list = 0
                        THEN [fb EXCEPT !.pc = "done", !.ret = "False", !.calls = c]
                        ELSE [fb EXCEPT !.pc = "upload", !.idx = 1, !.calls = c]
    /\ FbRest

\* lines 160-177, 193: one image is uploaded unpublished
FbUpload ==
    /\ fb.pc = "upload"
    /\ fb.idx <= fb.image_bytes_list
    /\ \E out \in UploadOutcomes :
          fb' = IF out \in UploadRaises
                THEN [fb EXCEPT !.pc = "fallback", !.combined = "raised",
                                !.calls = @ \o UploadCalls(fb.idx, out)]
                ELSE [fb EXCEPT !.idx = @ + 1,
                                !.calls = @ \o UploadCalls(fb.idx, out),
                                !.media_fbs = IF HasPhotoId(out) THEN Append(@, fb.idx) ELSE @]
    /\ FbRest

\* lines 179-192: after the last image, the single feed post
FbFeed ==
    /\ fb.pc = "upload"
    /\ fb.idx > fb.image_bytes_list
    /\ \/ /\ fb.media_fbs = <<>>
          /\ fb' = FbReturn("False")
       \/ /\ fb.media_fbs # <<>>
          /\ \E res \in {"ok", "raise"} :
                fb' = IF res = "ok"
                      THEN [fb EXCEPT !.pc = "done", !.ret = "True", !.combined = "posted",
                                      !.calls = Append(@, GraphCall("feed", 0, fb.media_fbs, res))]
                      ELSE [fb EXCEPT !.pc = "fallback", !.combined = "raised",
                                      !.calls = Append(@, GraphCall("feed", 0, fb.media_fbs, res))]
    /\ FbRest

\* lines 196-206: the first image is posted with the caption
FbFallback ==
    /\ fb.pc = "fallback"
    /\ \E res \in {"ok", "raise"} :
          fb' = [fb EXCEPT !.pc = "done",
                           !.ret = IF res = "ok" THEN "True" ELSE OnFallbackFailure,
                           !.calls = Append(@, GraphCall("put_photo_published", 1, <<>>, res))]
    /\ FbRest

NextFb == FbEnter \/ FbPrepare \/ FbUpload \/ FbFeed \/ FbFallback
SpecFb == InitFb /\ [][NextFb]_vars

-----------------------------------------------------------------------------
(* Properties of get_top_10_decks (specification Spec) *)

IsPrefix(a, b) == Len(a) <= Len(b) /\ \A i \in 1..Len(a) : a[i] = b[i]
Issued(kind) == \E i \in 1..Len(requests) : requests[i] = kind
LinkRows == {i \in 1..Len(page.rows) : page.rows[i].link}

\* C1: the four strategies are attempted in the order 1, 2, 3, 4, a strategy only
\* when no earlier one has yielded (decks_found is set exactly by the yielding
\* strategy and nothing later is attempted), and when strategy 1 yields no
\* detail, decklist or API request is ever issued.
C1Thm ==
    /\ IsPrefix(attempted, <<1, 2, 3, 4>>)
    /\ (yieldedBy = 0) <=> (decks_found.t = "none")
    /\ yieldedBy # 0 => \A i \in 1..Len(attempted) : attempted[i] <= yieldedBy
    /\ yieldedBy = 1 => ~Issued("detail") /\ ~Issued("decklist") /\ ~Issued("api")
    /\ yieldedBy = 2 => ~Issued("detail") /\ ~Issued("decklist") /\ ~Issued("api")
    /\ yieldedBy = 3 => ~Issued("api")

\* strategy 1 yielded on a page that also holds elements, table rows and API references
C1Wit ==
    /\ pc = "done"
    /\ yieldedBy = 1
    /\ page.items # <<>> /\ LinkRows # {} /\ page.apiRefs # <<>>

\* C2: get_top_10_decks ends with the extraction-exhausted RuntimeError exactly
\* when the primary request succeeded and all four strategies were attempted and
\* yielded nothing; then nothing is returned and the series request is not issued.
C2Thm ==
    /\ Terminated =>
         ((error = "RuntimeError")
            <=> (primaryResp \in PassResps /\ attempted = <<1, 2, 3, 4>> /\ yieldedBy = 0))
    /\ ~Terminated => error = "none"
    /\ error = "RuntimeError" => pc = "raised" /\ ~result.has /\ ~Issued("series")

\* the run ended exhausted after API endpoints had been requested in vain
C2Wit == pc = "raised" /\ error = "RuntimeError" /\ Issued("api")

\* C3: when the primary request fails (an exception, a timeout or a status
\* outside 2xx), the error is propagated, nothing is returned, no strategy runs
\* and no further request is issued.
C3Claim ==
    primaryResp \in FailResps \cup {"status3xx"} =>
        /\ pc = "raised" /\ error = "FetchError"
        /\ ~result.has
        /\ attempted = <<>>
        /\ requests = <<"primary">>

\* C4: in strategy 3 a detail request that raises, times out or answers non-200
\* raises nothing: the row's deck is collected with its name, its percentages and
\* no cards, and the loop goes on with the next row (or ends at the cap); when the
\* loop is over every row with a link, up to the cap, has been collected, and a
\* run in which strategy 3 yields ends with a result.
C4Thm ==
    /\ [][(pc = "s3_row" /\ requests' = Append(requests, "detail") /\ lastResp' \in FailResps)
            => LET row == page.rows[rowIdx]
                   d == table_decks'[Len(table_decks')]
               IN /\ error' = "none"
                  /\ Len(table_decks') = Len(table_decks) + 1
                  /\ SubSeq(table_decks', 1, Len(table_decks)) = table_decks
                  /\ Get(d, "name") = PyStr(row.name)
                  /\ Get(d, "win_pct") = PyFloat(RoundOrZero(RowPct(row.winrate, row.win)))
                  /\ Get(d, "share") = PyFloat(RoundOrZero(RowPct(row.share, row.usage)))
                  /\ Get(d, "cards") = PyList(<<>>)
                  /\ rowIdx' = rowIdx + 1
                  /\ pc' = IF Len(table_decks') >= 10 THEN "s3_end" ELSE "s3_row"]_vars
    /\ [](pc = "s4" /\ attempted = <<1, 2, 3>>
            => Len(table_decks) = Min(10, Cardinality(LinkRows)))
    /\ [](Terminated /\ yieldedBy = 3 => error = "none" /\ result.has)

\* every detail request of a run over two or more rows failed, and the run
\* returned their decks without cards
C4Wit ==
    /\ pc = "done" /\ yieldedBy = 3 /\ okLeft = MaxOk
    /\ Len(result.decks) >= 2
    /\ \A i \in 1..Len(result.decks) : result.decks[i].cards = <<>>

\* C5: every returned result holds at most 10 decks.
C5Thm == result.has => Len(result.decks) <= 10

\* a strategy found more than 10 raw records and 10 decks were returned
C5Wit == result.has /\ Len(decks_found.items) > 10 /\ Len(result.decks) = 10

\* C8 (as claimed): the normalization stage never raises, whatever the shape of
\* the raw records a strategy yielded.
C8Claim == error # "TypeError"

\* a raw record is valid when it is a dict with a name key and a cards key
ValidRaw(d) == d.t = "dict" /\ HasKey(d, "name") /\ HasKey(d, "cards")
NormalizedOf(ds) == [i \in 1..Len(ds) |-> _normalize_deck(ds[i]).deck]

\* C9 (as claimed): the returned decks are the normalized valid raw records, in
\* their order, cut to the first 10: an invalid record changes nothing else.
C9Claim ==
    result.has =>
        LET valid == SelectSeq(decks_found.items, ValidRaw)
        IN result.decks = NormalizedOf(SubSeq(valid, 1, Min(Len(valid), 10)))

\* the outcomes of a series request that failed
EnrichFailResps == FailResps \cup {"unusable"}
EmptySet == [id |-> PyStr(<<>>), name |-> PyStr(<<>>), logo |-> PyStr(<<>>)]
\* a "set" value from which lines 452-462 derive nothing
NoSetValue(m) == ~(m.t = "dict" \/ (m.t = "str" /\ m.s # <<>>))

\* C11 (as claimed): when the series request fails the decks are returned and the
\* set has id, name and logo all empty, whichever strategy yielded.
C11Claim ==
    pc = "done" /\ lastResp \in EnrichFailResps => result.has /\ result.set = EmptySet

\* C11 (amended): when the series request fails (exception, timeout, non-200,
\* unusable body) the decks are returned and the set is derived from the metadata
\* the yielding strategy gathered: all three fields are empty when strategy 2 or
\* 3 yielded, or when the document of strategy 1 carried no usable "set" value;
\* when it carried one, the set is derived from that value.
C11Thm ==
    pc = "done" /\ lastResp \in EnrichFailResps =>
        /\ error = "none"
        /\ result.has
        /\ result.decks = FirstTen(NormalizeStage(decks_found).out)
        /\ yieldedBy \in {2, 3} => result.set = EmptySet
        /\ yieldedBy = 1 =>
              LET m == Strategy1(page.cands).meta
              IN /\ result.set = SetOut(m)
                 /\ (result.set = EmptySet) <=> NoSetValue(m)
        /\ yieldedBy = 4 => ((result.set = EmptySet) <=> NoSetValue(meta_set))

\* the series request timed out after strategy 1 yielded from a document that
\* names its set, and the result carries that set
C11Wit ==
    /\ pc = "done" /\ lastResp = "timeout" /\ yieldedBy = 1
    /\ Len(result.decks) >= 1
    /\ result.set = [id |-> PyStr(sSetA4), name |-> PyStr(sSetA4), logo |-> PyStr(<<>>)]

\* the metadata value carries a logo, symbol or image value
CarriesLogo(m) ==
    m.t = "dict" /\ \E k \in {"logo", "symbol", "image"} : Truthy(Get(m, k))

\* C12 (as claimed): the logo of a returned set is the empty string when the
\* resolved metadata carries no logo, symbol or image value, and otherwise is
\* derived from the first of these that is present.
C12Claim ==
    result.has =>
        /\ ~CarriesLogo(meta_set) => result.set.logo = PyStr(<<>>)
        /\ CarriesLogo(meta_set) =>
              \E k \in {"logo", "symbol", "image"} :
                  /\ Truthy(Get(meta_set, k))
                  /\ result.set.logo \in {Get(meta_set, k), PyStr(ToStr(Get(meta_set, k)) \o sPng)}

\* C13 (as claimed): every non-empty card code of a result is one that
\* _normalize_card_code turns into "<setid>-<3-digit localid>" (never None).
C13Claim ==
    result.has =>
        \A i \in 1..Len(result.decks) :
            \A j \in 1..Len(result.decks[i].cards) :
                LET code == result.decks[i].cards[j].code
                IN code.t = "str" /\ code.s # <<>> => _normalize_card_code(code.s) # PyNone

\* the endpoints discovered on the page, and one of them is requested
Endpoints == _find_api_endpoints(page)
ApiStep == requests' = Append(requests, "api")

\* C21: in strategy 4 the distinct discovered endpoints are requested at most
\* once each, in first-seen order; an endpoint that raises, answers a status
\* outside 2xx, answers a body that does not parse or holds no deck list is
\* passed over and the next one is tried; after the first endpoint that yields
\* a deck list no endpoint is requested.
C21Claim ==
    /\ [](/\ \A i, j \in 1..Len(Endpoints) : Endpoints[i] = Endpoints[j] => i = j
          /\ \A i \in 1..Len(page.apiRefs) :
                \E j \in 1..Len(Endpoints) :
                    /\ Endpoints[j] = page.apiRefs[i]
                    /\ \A k \in 1..(j - 1) : \E h \in 1..(i - 1) : page.apiRefs[h] = Endpoints[k]
          /\ Len(SelectSeq(requests, LAMBDA q : q = "api")) <= Len(Endpoints)
          /\ yieldedBy = 4 => pc # "s4_ep")
    /\ [][ApiStep =>
            /\ pc = "s4_ep" /\ yieldedBy = 0
            /\ rowIdx = Len(SelectSeq(requests, LAMBDA q : q = "api")) + 1
            /\ rowIdx <= Len(Endpoints)
            /\ IF lastResp' # "ok" \/ ~lastBody'.ok
                   \/ ~Truthy(_find_decks_in_obj(lastBody'.val))
               THEN rowIdx' = rowIdx + 1 /\ pc' = "s4_ep" /\ yieldedBy' = 0
                    /\ decks_found' = decks_found
               ELSE yieldedBy' = 4 /\ pc' # "s4_ep"
                    /\ decks_found' = _find_decks_in_obj(lastBody'.val)]_vars

\* the number of requests of one kind issued so far
Requested(kind) == Len(SelectSeq(requests, LAMBDA q : q = kind))
\* the rows of the table that carry a deck link, in document order
Linked == SelectSeq(page.rows, LAMBDA r : r.link)
\* the rows with a deck link among the rows before the row in hand
LinkedBefore == Len(SelectSeq(SubSeq(page.rows, 1, Min(rowIdx - 1, Len(page.rows))),
                              LAMBDA r : r.link))

\* C19: strategy 3 collects at most 10 decks with at most 10 detail requests,
\* one per collected row and one row after the other: a decklist request
\* follows its row's detail request at once and the row's deck is collected
\* before the next detail request; the decks are those of the rows with a deck
\* link, in document order, rows without a link being passed over uncounted.
C19Thm ==
    (\E a \in 1..Len(attempted) : attempted[a] = 3) =>
        /\ Len(table_decks) <= TopN
        /\ Requested("detail") <= TopN
        /\ Requested("detail") = Len(table_decks) + (IF pc = "s3_decklist" THEN 1 ELSE 0)
        /\ Requested("decklist") <= Requested("detail")
        /\ \A j \in 1..Len(requests) :
              requests[j] = "decklist" => j > 1 /\ requests[j - 1] = "detail"
        /\ Len(table_decks) <= Len(Linked)
        /\ \A i \in 1..Len(table_decks) : Get(table_decks[i], "name") = PyStr(Linked[i].name)
        /\ pc \in {"s3_row", "s3_decklist"} => Len(table_decks) = LinkedBefore
        /\ pc \notin {"s3_row", "s3_decklist", "raised"} =>
              Len(table_decks) = Min(Len(Linked), TopN)

\* a table of more than 10 rows whose first row has no deck link: the next 10
\* rows were collected, one detail request each
C19Wit ==
    /\ pc = "done" /\ yieldedBy = 3
    /\ Len(page.rows) > TopN /\ ~page.rows[1].link
    /\ Len(table_decks) = TopN /\ Requested("detail") = TopN
    /\ Get(table_decks[1], "name") = PyStr(page.rows[2].name)

\* one request of strategy 3 is issued, and the row's deck is collected
DetailStep == pc = "s3_row" /\ requests' = Append(requests, "detail")
DecklistStep == requests' = Append(requests, "decklist")
Collected ==
    /\ Len(table_decks') = Len(table_decks) + 1
    /\ SubSeq(table_decks', 1, Len(table_decks)) = table_decks
NewCards == Get(table_decks'[Len(table_decks')], "cards")

\* the hidden input is there and reading it fails
InputFailed(inp) ==
    inp.has /\ (~inp.ok \/ ~Iterate(inp.val).ok
                \/ \E i \in 1..Len(Iterate(inp.val).items) : Iterate(inp.val).items[i].t # "dict")

\* the order of the card sources of one strategy-3 deck
SourceOrder ==
    /\ DetailStep /\ lastResp' = "ok" =>
          LET dp == lastBody'
              a == NodeCards(dp.nodes)
              b == NodeCards(dp.pre)
          IN /\ a # <<>> => Collected /\ NewCards = PyList(a) /\ pc' # "s3_decklist"
             /\ a = <<>> /\ b # <<>> =>
                   Collected /\ NewCards = PyList(b) /\ pc' # "s3_decklist"
             /\ a = <<>> /\ b = <<>> /\ ~dp.link =>
                   Collected /\ NewCards = PyList(<<>>) /\ pc' # "s3_decklist"
             /\ a = <<>> /\ b = <<>> /\ dp.link =>
                   pc' = "s3_decklist" /\ table_decks' = table_decks
    /\ DetailStep /\ lastResp' # "ok" => pc' # "s3_decklist"
    /\ DecklistStep =>
          /\ pc = "s3_decklist" /\ lastResp = "ok"
          /\ requests[Len(requests)] = "detail"
          /\ NodeCards(lastBody.nodes) = <<>> /\ NodeCards(lastBody.pre) = <<>>
          /\ lastBody.link
          /\ Collected /\ pc' # "s3_decklist"
          /\ lastResp' = "ok" =>
                LET dl == lastBody'
                    i == InputCards(dl.input)
                IN NewCards = PyList(IF i # <<>> THEN i ELSE BlobCards(dl.blob))

\* C20 as stated: the card sources of a strategy-3 deck are tried in the order
\* (a), (b), (c) and the first to yield a card wins; the decklist page is
\* requested only after a 200 detail page on which (a) and (b) yielded no card
\* and a decklist link exists, once per deck at most; the backtick block is used
\* only if the hidden input yielded no card; and any failure in (c), of the
\* request or of the hidden input, leaves the deck without cards.
C20Claim ==
    [][/\ SourceOrder
       /\ (DecklistStep /\ (lastResp' \in FailResps
                             \/ (lastResp' = "ok" /\ InputFailed(lastBody'.input))))
            => NewCards = PyList(<<>>)]_vars

\* C20: the card sources of a strategy-3 deck are tried in the order (a), (b),
\* (c) and the first to yield a card wins; the decklist page is requested only
\* after a 200 detail page on which (a) and (b) yielded no card and a decklist
\* link exists, once per deck at most; the backtick block is used exactly when
\* the hidden input yielded no card, a hidden input that fails included; a
\* decklist request that fails leaves the deck without cards.
C20Thm ==
    [][/\ SourceOrder
       /\ DecklistStep /\ lastResp' \in FailResps => NewCards = PyList(<<>>)
       /\ (DecklistStep /\ lastResp' = "ok" /\ InputFailed(lastBody'.input))
            => NewCards = PyList(BlobCards(lastBody'.blob))]_vars

\* a decklist page whose hidden input does not parse was answered, and the
\* deck holds the cards of the backtick block
C20Wit ==
    /\ requests # <<>> /\ requests[Len(requests)] = "decklist" /\ lastResp = "ok"
    /\ lastBody.input.has /\ ~lastBody.input.ok /\ lastBody.blob # <<>>
    /\ table_decks # <<>>
    /\ Get(table_decks[Len(table_decks)], "cards") = PyList(BlobCards(lastBody.blob))

\* the display name of a matched element: the text of its title descendant, else
\* its data-name attribute, else its title attribute, else the empty string
DisplayName(it) ==
    IF it.nameTag.t # "none" THEN it.nameTag
    ELSE IF Truthy(it.dataName) THEN it.dataName
    ELSE IF Truthy(it.titleAttr) THEN it.titleAttr
    ELSE PyStr(<<>>)

\* C25: in strategy 2 the name of each deck record is the display name of its
\* matched element, whatever card rows the element holds.
C25Claim ==
    yieldedBy = 2 =>
        /\ Len(decks_found.items) = Len(page.items)
        /\ \A i \in 1..Len(page.items) :
              Get(decks_found.items[i], "name") = DisplayName(page.items[i])

NameAliases == <<"name", "title", "deckName">>
CardsAliases == <<"cards", "list", "cardsList">>
\* a raw record with a name under a name alias and cards under a cards alias
HasAliases(d) ==
    /\ d.t = "dict"
    /\ \E i \in 1..3 : HasKey(d, NameAliases[i])
    /\ \E i \in 1..3 : HasKey(d, CardsAliases[i])
\* the first non-empty value among the name aliases, else the empty string
FirstName(d) ==
    IF Truthy(Get(d, "name")) THEN Get(d, "name")
    ELSE IF Truthy(Get(d, "title")) THEN Get(d, "title")
    ELSE IF Truthy(Get(d, "deckName")) THEN Get(d, "deckName")
    ELSE PyStr(<<>>)

\* C26: a raw record that carries its name under a name alias and its cards
\* under a cards alias is normalized and appears in the output, named by the
\* first non-empty alias value.
C26Claim ==
    result.has =>
        LET aliased == SelectSeq(FirstTen(decks_found.items), HasAliases)
        IN /\ Len(result.decks) = Len(aliased)
           /\ \A i \in 1..Len(aliased) : result.decks[i].name = FirstName(aliased[i])

\* the record has both keys the loop of line 422 asks for, and normalizes
Normalizable(d) ==
    /\ d.t = "dict"
    /\ HasKey(d, "name") /\ HasKey(d, "cards")
    /\ ~_normalize_deck(d).raised

\* C29: when strategy 2 or 3 is the one that yields, every record it built has a
\* name and a cards key and normalizes without error, nothing is raised, and
\* the return holds at least one deck; a return with an empty decks list comes
\* only from strategy 1 or 4.
C29Thm ==
    /\ yieldedBy \in {2, 3} =>
          /\ decks_found.t = "list" /\ decks_found.items # <<>>
          /\ \A i \in 1..Len(decks_found.items) : Normalizable(decks_found.items[i])
          /\ error = "none"
          /\ result.has =>
                /\ Len(result.decks) = Min(Len(decks_found.items), TopN)
                /\ Len(result.decks) >= 1
    /\ result.has /\ result.decks = <<>> => yieldedBy \in {1, 4}

\* strategy 3 yielded a row whose detail request failed: its deck is returned
\* with no cards
C29Wit ==
    /\ result.has /\ yieldedBy = 3
    /\ \E i \in 1..Len(result.decks) : result.decks[i].cards = <<>>

\* a return with no deck at all, from strategy 1 or 4
C29Empty == result.has /\ result.decks = <<>> /\ yieldedBy \in {1, 4}

-----------------------------------------------------------------------------
(* Properties of _find_decks_in_obj (specification SpecFind) *)

IsTagged(m) == Get(m, "game").t = "str" /\ Lower(Get(m, "game").s) = sPocket
DeckShaped(l) == l.t = "list" /\ \A i \in 1..Len(l.items) : DeckLike(l.items[i])

\* every sequence held under a "decks" key of a map of the value, at any depth,
\* in depth-first order, with whether its map is tagged with the target game
RECURSIVE DecksSeqs(_)
RECURSIVE DecksSeqsOf(_)
DecksSeqs(v) ==
    IF v.t = "dict"
    THEN (IF HasKey(v, "decks") /\ Get(v, "decks").t = "list"
          THEN <<[tagged |-> IsTagged(v), decks |-> Get(v, "decks")]>> ELSE <<>>)
         \o DecksSeqsOf(Values(v))
    ELSE IF v.t = "list" THEN DecksSeqsOf(v.items)
    ELSE <<>>
DecksSeqsOf(items) ==
    IF items = <<>> THEN <<>> ELSE DecksSeqs(items[1]) \o DecksSeqsOf(Tail(items))

\* the non-empty sequences of records with name and cards, in depth-first order
ValidSeqs(v) == SelectSeq(DecksSeqs(v), LAMBDA c : c.decks.items # <<>> /\ DeckShaped(c.decks))

\* C22: _find_decks_in_obj returns a non-empty deck sequence whenever the value
\* holds, at any depth, a map whose "decks" entry is a non-empty sequence of
\* records with name and cards, and then the first such sequence in depth-first
\* order; it returns nothing only when there is none.
C22Claim ==
    findRet.done =>
        IF ValidSeqs(findArg) # <<>>
        THEN findRet.val = ValidSeqs(findArg)[1].decks
        ELSE ~Truthy(findRet.val)

\* C23: every sequence _find_decks_in_obj returns holds only records (maps)
\* with a name key and a cards key, tagged with the target game or not.
C23Claim == findRet.done /\ findRet.val.t = "list" => DeckShaped(findRet.val)

\* C24: when the value holds both a decks sequence of a map tagged with the
\* target game and an untagged sequence of records with name and cards,
\* _find_decks_in_obj returns the tagged one, wherever the two sit.
C24Claim ==
    (/\ findRet.done
     /\ \E i \in 1..Len(DecksSeqs(findArg)) : DecksSeqs(findArg)[i].tagged
     /\ \E i \in 1..Len(ValidSeqs(findArg)) : ~ValidSeqs(findArg)[i].tagged)
    => \E i \in 1..Len(DecksSeqs(findArg)) :
          DecksSeqs(findArg)[i].tagged /\ findRet.val = DecksSeqs(findArg)[i].decks

-----------------------------------------------------------------------------
(* Properties of successive invocations (specification SpecTwice) *)

\* invocation 2 has ended and got, request by request, the answers of the reference
SameResponses ==
    /\ run = 2
    /\ Terminated
    /\ page = first.page
    /\ heard = first.heard
    /\ Len(heard) = Len(requests)

-----------------------------------------------------------------------------
(* Properties of the reference caches (specification SpecCache) *)

\* C15 (as claimed): under any interleaving of the worker threads, the dataset of
\* each cache is downloaded and assigned at most once.
C15Claim == \A c \in Caches : hist.gets[c] <= 1 /\ hist.fills[c] <= 1

\* C16 (as claimed): after a failed attempt to populate a cache, a later call
\* that tests the cache attempts the download again.
C16Claim ==
    [][\A t \in Threads :
          (thr[t].pc = "test" /\ thr'[t].pc # "test" /\ hist.status[thr[t].fn] = "failed")
              => thr'[t].pc = "get"]_vars

\* C17 (as claimed): once a cache is populated, no step of a call made after
\* that changes its content or takes it out of the populated state.
C17Claim ==
    [][\A t \in Threads :
          (thr[t].late /\ thr'[t] # thr[t] /\ hist.status[thr[t].fn] = "populated")
              => /\ hist'.status[thr[t].fn] = "populated"
                 /\ _CARD_DB_CACHE' = _CARD_DB_CACHE
                 /\ _SET_DB_CACHE' = _SET_DB_CACHE]_vars

\* C27: after a failed attempt to populate a cache the cache holds its
\* failed-empty value, and every call made after that returns None, without
\* raising and without a network request.
C27Claim ==
    /\ [](\A c \in Caches : hist.status[c] = "failed" => CacheOf(c) = FailedEmpty(c))
    /\ [][\A t \in Threads :
            thr[t].afterFail /\ thr'[t] # thr[t] =>
                /\ thr'[t].pc # "get"
                /\ thr'[t].pc = "idle" => thr'[t].ret = PyNone]_vars

-----------------------------------------------------------------------------
(* Properties of post_to_facebook (specification SpecFb) *)

FbCalls(op) == SelectSeq(fb.calls, LAMBDA c : c.op = op)
\* the images whose upload returned an id, in upload order
RECURSIVE UploadedIds(_)
UploadedIds(calls) ==
    IF calls = <<>> THEN <<>>
    ELSE IF calls[1].op = "put_photo" /\ calls[1].res = "id"
         THEN <<calls[1].img>> \o UploadedIds(Tail(calls))
         ELSE UploadedIds(Tail(calls))
\* an upload was attempted for every image
AllAttempted ==
    \A i \in 1..fb.image_bytes_list : \E k \in 1..Len(fb.calls) :
        fb.calls[k].op = "put_photo" /\ fb.calls[k].img = i
LastCall == fb.calls[Len(fb.calls)]

-----------------------------------------------------------------------------
(* Properties of _normalize_deck (specification SpecNorm) *)

\* C6 (as claimed): every output card has a non-negative integer qty and a name
\* and a code that are strings.
C6Claim ==
    norm.done /\ ~norm.raised =>
        \A i \in 1..Len(norm.deck.cards) :
            LET c == norm.deck.cards[i]
            IN c.qty >= 0 /\ c.name.t = "str" /\ c.code.t = "str"

\* a number, or a string that is a number with an optional trailing %
IsNumeric(x) ==
    \/ x.t \in {"int", "float"}
    \/ x.t = "str" /\ StrToFloat(RStripPct(Strip(x.s))).ok
NumericValue(x) == IF x.t = "str" THEN StrToFloat(RStripPct(Strip(x.s))).n ELSE ToFloat(x).n
NonNumeric(x) == x.t \in {"none", "str", "list", "dict"} /\ ~IsNumeric(x)

\* C7 (as claimed): a win_pct (share) that is a number or a numeric string comes
\* out rounded to 2 decimals, also when it is 0 and alias keys are present; a
\* non-numeric value comes out as 0.0; nothing raises.
C7Claim ==
    norm.done /\ CardsField(raw).t = "list" =>
        /\ ~norm.raised
        /\ HasKey(raw, "win_pct") /\ IsNumeric(Get(raw, "win_pct"))
             => norm.deck.win_pct = Round2(NumericValue(Get(raw, "win_pct")))
        /\ HasKey(raw, "share") /\ IsNumeric(Get(raw, "share"))
             => norm.deck.share = Round2(NumericValue(Get(raw, "share")))
        /\ HasKey(raw, "win_pct") /\ NonNumeric(Get(raw, "win_pct"))
             /\ ~HasKey(raw, "winPercent")
             => norm.deck.win_pct = 0

\* a returned deck, read as a raw record again
AsRaw(deck) ==
    DeckVal(deck.name, deck.win_pct, deck.share,
            [i \in 1..Len(deck.cards) |->
                CardVal(deck.cards[i].name, deck.cards[i].code, deck.cards[i].qty)])

\* the second application returns, and returns what the first returned
Idempotent ==
    /\ ~_normalize_deck(AsRaw(norm.deck)).raised
    /\ _normalize_deck(AsRaw(norm.deck)).deck = norm.deck

\* the cards of the record whose name is None, 0, False or empty
FalsyNames(d) ==
    {i \in 1..Len(Get(d, "cards").items) : ~Truthy(Get(Get(d, "cards").items[i], "name"))}

\* the record with the names of its cards at the positions in F replaced by ""
BlankNames(d, F) ==
    DeckVal(Get(d, "name"), Get(d, "win_pct").n, Get(d, "share").n,
            [i \in 1..Len(Get(d, "cards").items) |->
                LET c == Get(d, "cards").items[i]
                IN IF i \in F THEN CardVal(PyStr(<<>>), Get(c, "code"), Get(c, "qty").n)
                   ELSE c])

\* C30 (as claimed): _normalize_deck is idempotent, and a record built by
\* strategy 2 or 3 comes out of it unchanged.
C30Claim ==
    norm.done /\ ~norm.raised =>
        /\ Idempotent
        /\ raw \in BuiltRecords => AsRaw(norm.deck) = raw

\* C30 (amended): _normalize_deck is idempotent; a record built by strategy 2 or
\* 3 never makes it raise and comes out unchanged except for the card names
\* that are not truthy (the null name of a hidden-input entry), which come
\* out as the empty string.
C30Thm ==
    /\ norm.done /\ ~norm.raised => Idempotent
    /\ norm.done /\ raw \in BuiltRecords =>
          /\ ~norm.raised
          /\ AsRaw(norm.deck) = BlankNames(raw, FalsyNames(raw))
          /\ (\A i \in FalsyNames(raw) : Get(Get(raw, "cards").items[i], "name") = PyStr(<<>>))
                => AsRaw(norm.deck) = raw

\* a raw record with aliases and a percentage string was normalized, and the
\* output differs from the input while its own normalization changes nothing
C30Wit ==
    /\ norm.done /\ ~norm.raised
    /\ raw \notin BuiltRecords /\ AsRaw(norm.deck) # raw
    /\ Get(raw, "win_pct").t = "str" /\ norm.deck.win_pct # 0
    /\ Idempotent

\* a record of strategy 3 whose second card has the name None
C30Null ==
    /\ norm.done /\ raw \in BuiltRecords
    /\ FalsyNames(raw) = {2}
    /\ Get(Get(raw, "cards").items[2], "name") = PyNone
    /\ norm.deck.cards[2].name = PyStr(<<>>)

-----------------------------------------------------------------------------
(* Properties of do_get_decks (specification SpecBot) *)

Sent(kind) == \E i \in 1..Len(sent) : sent[i] = kind

\* C18: when get_top_10_decks raises, do_get_decks sends the error text exactly
\* once and stops: no media group, no caption, no other text of its own and no
\* Facebook post; the handler's own text follows only when that send raised.
C18Thm ==
    error # "none" =>
        /\ bpc = "end"
        /\ Len(SelectSeq(sent, LAMBDA m : m \in {"error", "error_failed"})) = 1
        /\ ~Sent("media_group") /\ ~Sent("caption") /\ ~Sent("no_decks") /\ ~Sent("no_images")
        /\ fbCalls = <<>>
        /\ media = 0
        /\ Sent("handler_error") => Sent("error_failed")

\* a scheduled run with Facebook posting enabled ended on the error message
C18Wit ==
    /\ error = "RuntimeError" /\ bpc = "end" /\ Truthy(flag)
    /\ sent = <<"scheduled", "error">>

\* C10 (as claimed): with the flag true and at least one media item, once the
\* caption was sent facebook_posting.post_to_facebook is invoked exactly once, with
\* the deck names and the media; with the flag false it is never invoked.
C10Claim ==
    bpc = "end" =>
        /\ (Truthy(flag) /\ media >= 1 /\ \E i \in 1..Len(sent) : sent[i] = "caption")
             => fbCalls = <<[names |-> nDecks, images |-> media]>>
        /\ ~Truthy(flag) => fbCalls = <<>>

=============================================================================
